---- MODULE Spec2Model ----
(***************************************************************************)
(* A model of dell/gofsutil's rescan / teardown engine, mount-table        *)
(* consistent read and mount / format orchestrator.                        *)
(*                                                                         *)
(* Go strings are modelled as sequences of one-character strings, so that  *)
(* prefixes, splitting, trimming and number conversion are computed and    *)
(* not assumed.  The operating system (sysfs files, external commands) is  *)
(* the environment: directory contents are drawn in the initial state and  *)
(* the outcome of every open / write / close / exec is drawn when the      *)
(* program performs it.                                                    *)
(***************************************************************************)
EXTENDS Integers, Sequences, FiniteSets, TLC

(***************************************************************************)
(* Bounds of the model.                                                    *)
(***************************************************************************)
MaxTargets == 2

(***************************************************************************)
(* Strings.                                                                *)
(***************************************************************************)
SeqsUpTo(S, n) == UNION {[1..k -> S] : k \in 0..n}

HasPrefix(s, p) == Len(s) >= Len(p) /\ SubSeq(s, 1, Len(p)) = p

HasSuffix(s, p) == Len(s) >= Len(p) /\ SubSeq(s, Len(s) - Len(p) + 1, Len(s)) = p

\* strings.Contains
Contains(s, sub) ==
    \E i \in 1..(Len(s) - Len(sub) + 1) : SubSeq(s, i, i + Len(sub) - 1) = sub

RECURSIVE Split(_, _)
Split(s, c) ==
    IF \A i \in 1..Len(s) : s[i] # c
    THEN <<s>>
    ELSE LET i == CHOOSE k \in 1..Len(s) : s[k] = c /\ \A j \in 1..(k - 1) : s[j] # c
         IN  <<SubSeq(s, 1, i - 1)>> \o Split(SubSeq(s, i + 1, Len(s)), c)

RECURSIVE TrimLeft(_, _)
TrimLeft(s, cutset) ==
    IF s # <<>> /\ Head(s) \in cutset THEN TrimLeft(Tail(s), cutset) ELSE s

RECURSIVE TrimRight(_, _)
TrimRight(s, cutset) ==
    IF s # <<>> /\ s[Len(s)] \in cutset
    THEN TrimRight(SubSeq(s, 1, Len(s) - 1), cutset)
    ELSE s

Trim(s, cutset) == TrimRight(TrimLeft(s, cutset), cutset)

WhiteSpace == {" ", "\t", "\n", "\r", "\f"}

TrimSpace(s) == Trim(s, WhiteSpace)

\* strings.Replace(s, old, new, 1): the first occurrence of old, if any.
ReplaceFirst(s, old, new) ==
    LET at == {i \in 1..(Len(s) - Len(old) + 1) : SubSeq(s, i, i + Len(old) - 1) = old}
    IN  IF at = {} THEN s
        ELSE LET i == CHOOSE k \in at : \A j \in at : k <= j
             IN  SubSeq(s, 1, i - 1) \o new \o SubSeq(s, i + Len(old), Len(s))

(***************************************************************************)
(* strconv.ParseInt(s, 16, 32) and strconv.Itoa.                           *)
(***************************************************************************)
HexDigits ==
    <<"0", "1", "2", "3", "4", "5", "6", "7", "8", "9", "a", "b", "c", "d", "e", "f">>

UpperHex == <<"A", "B", "C", "D", "E", "F">>

IsHexDigit(c) ==
    \/ \E i \in 1..Len(HexDigits) : HexDigits[i] = c
    \/ \E i \in 1..Len(UpperHex) : UpperHex[i] = c

HexVal(c) ==
    IF \E i \in 1..Len(HexDigits) : HexDigits[i] = c
    THEN (CHOOSE i \in 1..Len(HexDigits) : HexDigits[i] = c) - 1
    ELSE (CHOOSE i \in 1..Len(UpperHex) : UpperHex[i] = c) + 9

RECURSIVE HexMagnitude(_)
HexMagnitude(s) ==
    IF s = <<>> THEN 0
    ELSE HexMagnitude(SubSeq(s, 1, Len(s) - 1)) * 16 + HexVal(s[Len(s)])

\* bitSize 32: the largest value ParseInt(s, 16, 32) returns.
MaxInt32 == 2147483647

RECURSIVE StripZeros(_)
StripZeros(s) == IF Len(s) > 1 /\ Head(s) = "0" THEN StripZeros(Tail(s)) ELSE s

MinInt32Digits == <<"8", "0", "0", "0", "0", "0", "0", "0">>

\* [ok |-> the string is a base-16 int32, val |-> its value].  Magnitudes are
\* compared by digit count first, so that no intermediate value exceeds 32 bits.
ParseInt(s) ==
    LET neg    == s # <<>> /\ Head(s) = "-"
        body   == IF s # <<>> /\ Head(s) \in {"+", "-"} THEN Tail(s) ELSE s
        syntax == body # <<>> /\ \A i \in 1..Len(body) : IsHexDigit(body[i])
        digits == IF syntax THEN StripZeros(body) ELSE <<"0">>
        small  == Len(digits) < 8 \/ (Len(digits) = 8 /\ HexVal(digits[1]) < 8)
        isMin  == neg /\ digits = MinInt32Digits
    IN  [ok  |-> syntax /\ (small \/ isMin),
         val |-> IF ~syntax \/ ~(small \/ isMin) THEN 0
                 ELSE IF isMin THEN (0 - MaxInt32) - 1
                 ELSE IF neg THEN 0 - HexMagnitude(digits)
                 ELSE HexMagnitude(digits)]

RECURSIVE UDecimal(_)
UDecimal(n) ==
    IF n < 10 THEN <<HexDigits[n + 1]>>
    ELSE UDecimal(n \div 10) \o <<HexDigits[(n % 10) + 1]>>

Itoa(n) ==
    IF n >= 0 THEN UDecimal(n)
    ELSE IF n = (0 - MaxInt32) - 1
    THEN <<"-">> \o UDecimal(MaxInt32 \div 10) \o <<"8">>
    ELSE <<"-">> \o UDecimal(0 - n)

\* Mutation of normalizeLun: a hexadecimal lun is passed on unconverted.
normalizeLun_unconverted(lun) ==
    IF lun = <<>> THEN <<"-">>
    ELSE IF ParseInt(lun).ok THEN lun ELSE <<"-">>

\* rescanSCSIHost, lines 321-332: the LUN field of the scan string.
normalizeLun(lun) ==
    IF lun = <<>> THEN <<"-">>
    ELSE IF ParseInt(lun).ok THEN Itoa(ParseInt(lun).val) ELSE <<"-">>

(***************************************************************************)
(* rescanSCSIHost: the targets, the sysfs directories it reads and the     *)
(* scan files it writes.                                                   *)
(***************************************************************************)
VARIABLES
    targets,          \* rescanSCSIHost's targets argument
    lun,              \* rescanSCSIHost's lun argument
    fcRemotePortsDir, \* /sys/class/fc_remote_ports as os.ReadDir returns it
    sessionsdir,      \* /sys/class/iscsi_session
    hostsdir,         \* /sys/class/scsi_host
    rpc,              \* position in rescanSCSIHost
    resolved,         \* both resolutions returned without error
    targetDevices,    \* the targetdev list (FC, then iSCSI)
    idx,              \* index of the loop over targetDevices or over hosts
    scanLog,          \* every scan file the call tried to open, in order
    rescanErr,        \* the returned error ("nil" when none)
    calls,            \* how many calls were begun with these arguments
    firstCall         \* what the first of two calls did and returned

rescanVars ==
    <<targets, lun, fcRemotePortsDir, sessionsdir, hostsdir, rpc, resolved,
      targetDevices, idx, scanLog, rescanErr, calls, firstCall>>

iqnPrefix == <<"i", "q", "n", ".">>
FCPortPrefix == <<"0", "x", "5", "0">>
rportPrefix == <<"r", "p", "o", "r", "t", "-">>
hostPrefix == <<"h", "o", "s", "t">>
sessionPrefix == <<"s", "e", "s", "s", "i", "o", "n">>
targetPrefix == <<"t", "a", "r", "g", "e", "t">>
wildcard == <<"-">>

iqnA == iqnPrefix \o <<"a">>
iqnB == iqnPrefix \o <<"b">>
wwnA == FCPortPrefix \o <<"a">>
wwnB == FCPortPrefix \o <<"b">>
unknownTarget == <<"a", "b", "c">>

TargetNames == {iqnA, wwnA, wwnB, unknownTarget}

LunArgs == {<<>>, <<"1", "f">>, <<"z">>}

File(content) == [exists |-> TRUE, content |-> content]
Missing == [exists |-> FALSE, content |-> <<>>]

\* Entries of /sys/class/fc_remote_ports: name and the port_name file.
rport(name, port_name) == [name |-> name, port_name |-> port_name]

\* A SCSI host is a Fibre Channel adapter or an iSCSI one: the hosts of the
\* remote ports are not hosts of the sessions in SessionDirs.
FCDirs ==
    { [err |-> FALSE, entries |-> <<>>],
      [err |-> TRUE, entries |-> <<>>],
      [err |-> FALSE, entries |->
          << rport(rportPrefix \o <<"1", ":", "0", "-", "0">>, File(wwnA \o <<"\n">>)),
             rport(rportPrefix \o <<"1", ":", "0", "-", "1">>, File(wwnB \o <<"\n">>)),
             rport(rportPrefix \o <<"2", ":", "0", "-", "0">>, File(wwnA)) >>],
      [err |-> FALSE, entries |->
          << rport(<<"x">>, File(wwnA)),
             rport(rportPrefix \o <<"6", ":", "0", "-", "0">>, Missing),
             rport(rportPrefix \o <<"4">>, File(wwnA)),
             rport(rportPrefix \o <<"1", ":", "0", "-", "2">>, File(wwnB)) >>] }

\* Entries of /sys/class/iscsi_session: name, targetname file, device directory.
session(name, targetname, deviceErr, devices) ==
    [name |-> name, targetname |-> targetname, deviceErr |-> deviceErr, devices |-> devices]

SessionDirs ==
    { [err |-> FALSE, entries |-> <<>>],
      [err |-> TRUE, entries |-> <<>>],
      [err |-> FALSE, entries |->
          << session(sessionPrefix \o <<"1">>, File(iqnA \o <<"\n">>), FALSE,
                     << <<"x">>, targetPrefix \o <<"3", ":", "0", ":", "0">>,
                        targetPrefix \o <<"9", ":", "9", ":", "9">> >>),
             session(sessionPrefix \o <<"2">>, File(iqnB), FALSE,
                     << targetPrefix \o <<"1", ":", "1", ":", "2">> >>) >>],
      [err |-> FALSE, entries |->
          << session(<<"x">>, File(iqnA), FALSE, << targetPrefix \o <<"7", ":", "0", ":", "0">> >>),
             session(sessionPrefix \o <<"3">>, Missing, FALSE, <<>>),
             session(sessionPrefix \o <<"4">>, File(iqnA), TRUE, <<>>),
             session(sessionPrefix \o <<"5">>, File(iqnA), FALSE,
                     << targetPrefix \o <<"5", ":", "0">> >>) >>] }

HostDirs ==
    { [err |-> TRUE, entries |-> <<>>],
      [err |-> FALSE, entries |->
          << hostPrefix \o <<"1">>, hostPrefix \o <<"2">>, hostPrefix \o <<"3">> >>],
      [err |-> FALSE, entries |-> << <<"x">>, hostPrefix \o <<"3">> >>] }

\* What one open / WriteString / Close of a sysfs file can do.
IOOutcomes ==
    { [open |-> FALSE, write |-> FALSE, close |-> FALSE],
      [open |-> TRUE, write |-> TRUE, close |-> TRUE],
      [open |-> TRUE, write |-> FALSE, close |-> TRUE],
      [open |-> TRUE, write |-> TRUE, close |-> FALSE],
      [open |-> TRUE, write |-> FALSE, close |-> FALSE] }

targetdev(host, channel, target) == [host |-> host, channel |-> channel, target |-> target]

\* Mutation of splitTargets: a target of neither kind is taken for an IQN.
splitTargets_unknownAsIscsi(tgts) ==
    [ iscsiTargets |-> SelectSeq(tgts, LAMBDA t : ~HasPrefix(t, FCPortPrefix) \/ HasPrefix(t, iqnPrefix)),
      fibreChannelTargets |->
          SelectSeq(tgts, LAMBDA t : ~HasPrefix(t, iqnPrefix) /\ HasPrefix(t, FCPortPrefix)) ]

splitTargets(tgts) ==
    [ iscsiTargets |-> SelectSeq(tgts, LAMBDA t : HasPrefix(t, iqnPrefix)),
      fibreChannelTargets |->
          SelectSeq(tgts, LAMBDA t : ~HasPrefix(t, iqnPrefix) /\ HasPrefix(t, FCPortPrefix)) ]

InSeq(x, s) == \E i \in 1..Len(s) : s[i] = x

\* Mutation of fcVisit: the duplicates map is not consulted, and an entry is
\* appended for every target of the list that equals the port name.
fcVisit_noDuplicates(remotePort, tgts, targetDev) ==
    LET arrayPortName == TrimSpace(remotePort.port_name.content)
        split == Split(remotePort.name, ":")
        host  == ReplaceFirst(split[1], rportPrefix, hostPrefix)
    IN  IF /\ HasPrefix(remotePort.name, rportPrefix)
           /\ remotePort.port_name.exists
           /\ HasPrefix(arrayPortName, FCPortPrefix)
           /\ Len(split) >= 2
        THEN targetDev \o [i \in 1..Len(SelectSeq(tgts, LAMBDA t : t = arrayPortName)) |->
                              targetdev(host, wildcard, wildcard)]
        ELSE targetDev

\* One remote port of getFCTargetHosts' loop: the list after visiting it.
fcVisit(remotePort, tgts, targetDev) ==
    LET arrayPortName == TrimSpace(remotePort.port_name.content)
        split == Split(remotePort.name, ":")
        host  == ReplaceFirst(split[1], rportPrefix, hostPrefix)
    IN  IF /\ HasPrefix(remotePort.name, rportPrefix)
           /\ remotePort.port_name.exists
           /\ HasPrefix(arrayPortName, FCPortPrefix)
           /\ InSeq(arrayPortName, tgts)
           /\ Len(split) >= 2
           /\ ~(\E i \in 1..Len(targetDev) : targetDev[i].host = host)
        THEN Append(targetDev, targetdev(host, wildcard, wildcard))
        ELSE targetDev

RECURSIVE fcLoop(_, _, _)
fcLoop(entries, tgts, targetDev) ==
    IF entries = <<>> THEN targetDev
    ELSE fcLoop(Tail(entries), tgts, fcVisit(Head(entries), tgts, targetDev))

\* The error of getFCTargetHosts is always nil.
getFCTargetHosts(tgts, dir) ==
    IF Len(tgts) = 0 THEN <<>> ELSE fcLoop(dir.entries, tgts, <<>>)

\* The first target* entry of a session's device directory decides (break).
iscsiDevice(devices) ==
    LET at == {i \in 1..Len(devices) : HasPrefix(devices[i], targetPrefix)}
    IN  IF at = {} THEN <<>>
        ELSE LET i == CHOOSE k \in at : \A j \in at : k <= j
                 split == Split(SubSeq(devices[i], 7, Len(devices[i])), ":")
             IN  IF Len(split) >= 3
                 THEN <<targetdev(hostPrefix \o split[1], split[2], split[3])>>
                 ELSE <<>>

iscsiVisit(s, tgts) ==
    IF /\ HasPrefix(s.name, sessionPrefix)
       /\ s.targetname.exists
       /\ InSeq(Trim(s.targetname.content, {"\n", "\r", "\t", " "}), tgts)
       /\ ~s.deviceErr
    THEN iscsiDevice(s.devices)
    ELSE <<>>

RECURSIVE iscsiLoop(_, _)
iscsiLoop(entries, tgts) ==
    IF entries = <<>> THEN <<>>
    ELSE iscsiVisit(Head(entries), tgts) \o iscsiLoop(Tail(entries), tgts)

getIscsiTargetHosts(tgts, dir) ==
    IF Len(tgts) = 0 THEN [targetDev |-> <<>>, err |-> FALSE]
    ELSE IF dir.err THEN [targetDev |-> <<>>, err |-> TRUE]
    ELSE [targetDev |-> iscsiLoop(dir.entries, tgts), err |-> FALSE]

\* Mutation of anyTargetDevices: one resolved targetdev is not enough.
anyTargetDevices_several(devs) == Len(devs) > 1

\* Line 348: the targeted loop runs, and the sweep does not, when any
\* targetdev was resolved.
anyTargetDevices(devs) == Len(devs) > 0

scanstring(channel, target, l) == channel \o <<" ">> \o target \o <<" ">> \o l

\* One pass of either loop body, lines 350-364 and 382-396: the scan file of
\* host is opened, written and closed with outcome io.
scanEvent(mode, host, str, io) ==
    [mode |-> mode, host |-> host, str |-> str,
     opened |-> io.open, written |-> io.open /\ io.write, closed |-> io.open /\ io.close]

\* Lines 361-364 and 393-396: a failed Close returns from the call.
closeReturns(io) == io.open /\ ~io.close

NoCall == [made |-> FALSE, log |-> <<>>, err |-> "nil"]

\* The locals of rescanSCSIHost as a call finds them.
atEntry ==
    /\ rpc = "call"
    /\ resolved = FALSE
    /\ targetDevices = <<>>
    /\ idx = 1
    /\ scanLog = <<>>
    /\ rescanErr = "nil"
    /\ calls = 1
    /\ firstCall = NoCall

InitRescan ==
    /\ targets \in SeqsUpTo(TargetNames, MaxTargets)
    /\ lun \in LunArgs
    /\ fcRemotePortsDir \in FCDirs
    /\ sessionsdir \in SessionDirs
    /\ hostsdir \in HostDirs
    /\ atEntry

\* Argument lists for a call that is made twice.
RetryTargets ==
    SeqsUpTo(TargetNames, 1) \cup { <<wwnA, wwnB>>, <<iqnA, wwnA>>, <<wwnA, wwnA>> }

InitRetry ==
    /\ targets \in RetryTargets
    /\ lun = <<"1", "f">>
    /\ fcRemotePortsDir \in FCDirs
    /\ sessionsdir \in SessionDirs
    /\ hostsdir \in HostDirs
    /\ atEntry

IdleRescan ==
    /\ targets = <<>>
    /\ lun = <<>>
    /\ fcRemotePortsDir = [err |-> FALSE, entries |-> <<>>]
    /\ sessionsdir = [err |-> FALSE, entries |-> <<>>]
    /\ hostsdir = [err |-> FALSE, entries |-> <<>>]
    /\ rpc = "idle"
    /\ resolved = FALSE
    /\ targetDevices = <<>>
    /\ idx = 1
    /\ scanLog = <<>>
    /\ rescanErr = "nil"
    /\ calls = 1
    /\ firstCall = NoCall

\* Lines 318-348 and 369-376: normalise, split, resolve, choose the loop.
RescanResolve ==
    /\ rpc = "call"
    /\ LET sp    == splitTargets(targets)
           fc    == getFCTargetHosts(sp.fibreChannelTargets, fcRemotePortsDir)
           iscsi == getIscsiTargetHosts(sp.iscsiTargets, sessionsdir)
           devs  == fc \o iscsi.targetDev
       IN  /\ resolved' = ~iscsi.err
           /\ targetDevices' = IF iscsi.err THEN fc ELSE devs
           /\ IF iscsi.err
              THEN rpc' = "done" /\ rescanErr' = "ReadDir sessionsdir"
              ELSE IF anyTargetDevices(devs)
              THEN rpc' = "targeted" /\ rescanErr' = "nil"
              ELSE IF hostsdir.err
              THEN rpc' = "done" /\ rescanErr' = "ReadDir hostsdir"
              ELSE IF hostsdir.entries = <<>>
              THEN rpc' = "done" /\ rescanErr' = "nil"
              ELSE rpc' = "sweep" /\ rescanErr' = "nil"
    /\ UNCHANGED <<targets, lun, fcRemotePortsDir, sessionsdir, hostsdir, idx, scanLog,
                   calls, firstCall>>

\* Lines 349-366: one entry of the targeted loop.
ScanTargeted ==
    /\ rpc = "targeted"
    /\ \E io \in IOOutcomes :
        LET entry == targetDevices[idx]
        IN  /\ scanLog' = Append(scanLog,
                   scanEvent("targeted", entry.host,
                             scanstring(entry.channel, entry.target, normalizeLun(lun)), io))
            /\ IF closeReturns(io) \/ idx = Len(targetDevices)
               THEN rpc' = "done" /\ idx' = idx
               ELSE rpc' = rpc /\ idx' = idx + 1
    /\ UNCHANGED <<targets, lun, fcRemotePortsDir, sessionsdir, hostsdir, resolved,
                   targetDevices, rescanErr, calls, firstCall>>

\* Lines 378-398: one directory entry of the all-hosts sweep.
ScanSweep ==
    /\ rpc = "sweep"
    /\ \E io \in IOOutcomes :
        LET name    == hostsdir.entries[idx]
            isHost  == HasPrefix(name, hostPrefix)
        IN  /\ scanLog' =
                   IF isHost
                   THEN Append(scanLog,
                            scanEvent("sweep", name,
                                      scanstring(wildcard, wildcard, normalizeLun(lun)), io))
                   ELSE scanLog
            /\ IF (isHost /\ closeReturns(io)) \/ idx = Len(hostsdir.entries)
               THEN rpc' = "done" /\ idx' = idx
               ELSE rpc' = rpc /\ idx' = idx + 1
    /\ UNCHANGED <<targets, lun, fcRemotePortsDir, sessionsdir, hostsdir, resolved,
                   targetDevices, rescanErr, calls, firstCall>>

\* Mutation of loopStart: the loop goes on from where the last call left it.
loopStart_carried(last) == last

\* Lines 349 and 378: each call's range loop starts at the first entry.
loopStart(last) == 1

\* rescanSCSIHost is called again with the same arguments once the first
\* call has returned; the directories are as they were.
RescanAgain ==
    /\ rpc = "done"
    /\ calls = 1
    /\ calls' = 2
    /\ firstCall' = [made |-> TRUE, log |-> scanLog, err |-> rescanErr]
    /\ rpc' = "call"
    /\ resolved' = FALSE
    /\ targetDevices' = <<>>
    /\ idx' = loopStart(idx)
    /\ scanLog' = <<>>
    /\ rescanErr' = "nil"
    /\ UNCHANGED <<targets, lun, fcRemotePortsDir, sessionsdir, hostsdir>>

(***************************************************************************)
(* rescanSCSIHost: claims.                                                 *)
(***************************************************************************)
\* What FC and iSCSI resolution yield together for the call's arguments.
ResolvedDevices ==
    LET sp == splitTargets(targets)
    IN  getFCTargetHosts(sp.fibreChannelTargets, fcRemotePortsDir)
            \o getIscsiTargetHosts(sp.iscsiTargets, sessionsdir).targetDev

ResolutionFails ==
    getIscsiTargetHosts(splitTargets(targets).iscsiTargets, sessionsdir).err

SweepString == scanstring(wildcard, wildcard, normalizeLun(lun))

HostEntries == SelectSeq(hostsdir.entries, LAMBDA n : HasPrefix(n, hostPrefix))

\* C1: when FC and iSCSI resolution together yield at least one targetdev, every
\* scan file the call touches belongs to a resolved host and receives that
\* host's "<channel> <target> <lun>" string; the all-hosts sweep is never
\* entered, whatever the opens, writes and closes do.
C1_TargetedNeverSweeps ==
    (rpc # "idle" /\ Len(ResolvedDevices) > 0) =>
        /\ rpc # "sweep"
        /\ \A i \in 1..Len(scanLog) :
              /\ scanLog[i].mode = "targeted"
              /\ \E j \in 1..Len(ResolvedDevices) :
                    /\ scanLog[i].host = ResolvedDevices[j].host
                    /\ scanLog[i].str = scanstring(ResolvedDevices[j].channel,
                                                   ResolvedDevices[j].target,
                                                   normalizeLun(lun))

\* C1 witness: a finished targeted call over two resolved hosts, the first of
\* which could not be opened, on a machine with a host that was not resolved.
C1_Witness ==
    /\ rpc = "done"
    /\ Len(ResolvedDevices) = 2
    /\ Len(scanLog) = 2
    /\ ~scanLog[1].opened
    /\ scanLog[2].written
    /\ \E i \in 1..Len(HostEntries) :
          \A j \in 1..Len(ResolvedDevices) : ResolvedDevices[j].host # HostEntries[i]

\* C5: when the targets resolve to zero targetdevs, the write of "- - <lun>" is
\* made on the scan file of every host* entry of /sys/class/scsi_host.
C5_ZeroResolvedSweepsEveryHost ==
    (rpc = "done" /\ ~ResolutionFails /\ Len(ResolvedDevices) = 0 /\ ~hostsdir.err) =>
        \A i \in 1..Len(HostEntries) :
            \E k \in 1..Len(scanLog) :
                /\ scanLog[k].mode = "sweep"
                /\ scanLog[k].host = HostEntries[i]
                /\ scanLog[k].str = SweepString

scanFailed(e) == ~e.opened \/ ~e.written \/ ~e.closed

\* The hosts the loop the call chose has to visit, in order.
HostsToScan ==
    IF Len(ResolvedDevices) > 0
    THEN [i \in 1..Len(ResolvedDevices) |-> ResolvedDevices[i].host]
    ELSE HostEntries

\* C6: in either loop, a host whose scan file fails to open, to be written or
\* to close does not keep the call from trying every later host.
C6_FailureNeverBlocksLaterHosts ==
    (rpc = "done" /\ ~ResolutionFails /\ (Len(ResolvedDevices) > 0 \/ ~hostsdir.err)) =>
        \A i \in 1..Len(scanLog) :
            scanFailed(scanLog[i]) =>
                \A j \in (i + 1)..Len(HostsToScan) :
                    j <= Len(scanLog) /\ scanLog[j].host = HostsToScan[j]

\* The targets of the call without those that begin with neither prefix.
KnownTargets ==
    SelectSeq(targets, LAMBDA t : HasPrefix(t, iqnPrefix) \/ HasPrefix(t, FCPortPrefix))

\* What the resolution of lines 333-344 yields for KnownTargets alone.
ResolutionOfKnown ==
    LET sp    == splitTargets(KnownTargets)
        fc    == getFCTargetHosts(sp.fibreChannelTargets, fcRemotePortsDir)
        iscsi == getIscsiTargetHosts(sp.iscsiTargets, sessionsdir)
    IN  [err |-> iscsi.err, devs |-> fc \o iscsi.targetDev]

\* The result and the scan writes that rescanSCSIHost(KnownTargets, lun) can
\* produce on the same machine: the returned error, and host and string of
\* every scan file it may touch, in order.
ResultOfKnown ==
    IF ResolutionOfKnown.err THEN "ReadDir sessionsdir"
    ELSE IF Len(ResolutionOfKnown.devs) = 0 /\ hostsdir.err THEN "ReadDir hostsdir"
    ELSE "nil"

ScansOfKnown ==
    LET devs == ResolutionOfKnown.devs
    IN  IF ResolutionOfKnown.err THEN <<>>
        ELSE IF Len(devs) > 0
        THEN [i \in 1..Len(devs) |->
                 [mode |-> "targeted", host |-> devs[i].host,
                  str |-> scanstring(devs[i].channel, devs[i].target, normalizeLun(lun))]]
        ELSE [i \in 1..Len(HostEntries) |->
                 [mode |-> "sweep", host |-> HostEntries[i], str |-> SweepString]]

\* C15: targets that begin with neither "iqn." nor "0x50" are ignored: the
\* call raises no error for them, and it returns what it returns, and
\* touches the scan files it touches, for the list without them.
C15_UnknownTargetsAreIgnored ==
    /\ rpc = "done" => rescanErr = ResultOfKnown
    /\ rpc \in {"targeted", "sweep", "done"} =>
          /\ resolved = ~ResolutionOfKnown.err
          /\ resolved => targetDevices = ResolutionOfKnown.devs
          /\ Len(scanLog) <= Len(ScansOfKnown)
          /\ \A i \in 1..Len(scanLog) :
                /\ scanLog[i].mode = ScansOfKnown[i].mode
                /\ scanLog[i].host = ScansOfKnown[i].host
                /\ scanLog[i].str = ScansOfKnown[i].str

\* C15 witness: the list held an unknown target and WWNs that resolve to two
\* hosts; both, and only they, were scanned.
C15_Witness ==
    /\ rpc = "done"
    /\ Len(KnownTargets) < Len(targets)
    /\ Len(KnownTargets) > 0
    /\ Len(scanLog) = 2
    /\ scanLog[1].mode = "targeted" /\ scanLog[2].written
    /\ rescanErr = "nil"

(***************************************************************************)
(* removeBlockDevice: /sys/block/<dev>/device/state and .../delete.        *)
(***************************************************************************)
VARIABLES
    blockDevicePath,  \* removeBlockDevice's argument
    sysBlock,         \* device name -> its device/state file
    bpc,              \* position in removeBlockDevice
    stateRead,        \* what reading the state file gave, if it was read
    deleteLog,        \* opens and writes of delete files, in order
    removeErr         \* the returned error

removeVars == <<blockDevicePath, sysBlock, bpc, stateRead, deleteLog, removeErr>>

sda == <<"s", "d", "a">>
sdb == <<"s", "d", "b">>
sdc == <<"s", "d", "c">>
devDir == <<"/", "d", "e", "v", "/">>
sysBlockDir == <<"/", "s", "y", "s", "/", "b", "l", "o", "c", "k">>
blocked == <<"b", "l", "o", "c", "k", "e", "d">>
running == <<"r", "u", "n", "n", "i", "n", "g">>

BlockDevicePaths ==
    { devDir \o sda, devDir \o sdb, devDir \o sdc, sda, sdb, <<"x", "/">> \o sda }

StateFiles ==
    { Missing, File(running \o <<"\n">>), File(blocked \o <<"\n">>), File(blocked),
      File(blocked \o <<"2">>) }

NotRead == [read |-> FALSE, ok |-> FALSE, content |-> <<>>]

\* Lines 545-547: the last component, when the path has a separator at all.
devicePathComponents(path) == Split(path, "/")

hasDeviceName(path) == Len(devicePathComponents(path)) > 1

deviceNameOf(path) == devicePathComponents(path)[Len(devicePathComponents(path))]

\* Line 548: filepath.Join(sysBlockDir, "<deviceName>/device/state").
statePathOf(deviceName) ==
    sysBlockDir \o <<"/">> \o deviceName
        \o <<"/", "d", "e", "v", "i", "c", "e", "/", "s", "t", "a", "t", "e">>

stateFileOf(deviceName) ==
    IF deviceName \in DOMAIN sysBlock THEN sysBlock[deviceName] ELSE Missing

\* Mutation of isBlocked: the state is compared without trimming.
isBlocked_untrimmed(stateBytes) == stateBytes = blocked

\* Lines 553-554.
isBlocked(stateBytes) == TrimSpace(stateBytes) = blocked

nilErr == [kind |-> "nil", names |-> <<>>]

InitRemove ==
    /\ blockDevicePath \in BlockDevicePaths
    /\ sysBlock \in [{sda, sdb} -> StateFiles]
    /\ bpc = "call"
    /\ stateRead = NotRead
    /\ deleteLog = <<>>
    /\ removeErr = nilErr

IdleRemove ==
    /\ blockDevicePath = <<>>
    /\ sysBlock = [d \in {sda, sdb} |-> Missing]
    /\ bpc = "idle"
    /\ stateRead = NotRead
    /\ deleteLog = <<>>
    /\ removeErr = nilErr

deleteEvent(deviceName, op, ok) == [device |-> deviceName, op |-> op, ok |-> ok]

\* Lines 542-573, the whole call; io is what the delete file does.
removeBlockDevice ==
    /\ bpc = "call"
    /\ bpc' = "done"
    /\ \E io \in IOOutcomes :
        IF ~hasDeviceName(blockDevicePath)
        THEN /\ removeErr' = nilErr
             /\ UNCHANGED <<stateRead, deleteLog>>
        ELSE LET deviceName == deviceNameOf(blockDevicePath)
                 state      == stateFileOf(deviceName)
             IN  /\ stateRead' = [read |-> TRUE, ok |-> state.exists, content |-> state.content]
                 /\ IF ~state.exists
                    THEN /\ removeErr' = [kind |-> "Cannot read", names |-> statePathOf(deviceName)]
                         /\ deleteLog' = deleteLog
                    ELSE IF isBlocked(state.content)
                    THEN /\ removeErr' = [kind |-> "blocked state", names |-> deviceName]
                         /\ deleteLog' = deleteLog
                    ELSE IF ~io.open
                    THEN /\ removeErr' = [kind |-> "open", names |-> <<>>]
                         /\ deleteLog' = <<deleteEvent(deviceName, "open", FALSE)>>
                    ELSE /\ removeErr' = IF io.close THEN nilErr
                                         ELSE [kind |-> "close", names |-> <<>>]
                         /\ deleteLog' = <<deleteEvent(deviceName, "open", TRUE),
                                           deleteEvent(deviceName, "write", io.write)>>
    /\ UNCHANGED <<blockDevicePath, sysBlock>>

(***************************************************************************)
(* removeBlockDevice: claims.                                              *)
(***************************************************************************)
\* The device a path names: its final component.
NamedDevice == Split(blockDevicePath, "/")[Len(Split(blockDevicePath, "/"))]

HasSeparator == \E i \in 1..Len(blockDevicePath) : blockDevicePath[i] = "/"

\* The named device's state file is missing, or reads "blocked" once trimmed.
StateForbidsDelete ==
    \/ ~stateFileOf(NamedDevice).exists
    \/ TrimSpace(stateFileOf(NamedDevice).content) = blocked

ErrNamesDevice ==
    /\ removeErr.kind \in {"Cannot read", "blocked state"}
    /\ Contains(removeErr.names, NamedDevice)

DeleteOnlyAfterSafeState ==
    deleteLog # <<>> =>
        /\ stateRead.read /\ stateRead.ok
        /\ TrimSpace(stateRead.content) # blocked
        /\ \A i \in 1..Len(deleteLog) : deleteLog[i].device = NamedDevice

Wrote1 == \E i \in 1..Len(deleteLog) : deleteLog[i].op = "write" /\ deleteLog[i].ok

\* C11: removeBlockDevice returns nil only if "1" was written to the delete
\* file of the device; a failing read of the state, open, write or close
\* makes it return an error.  Stated for the paths that name a device
\* behind a "/".
C11_NilOnlyAfterDeleteWritten ==
    (bpc = "done" /\ HasSeparator /\ removeErr = nilErr) => Wrote1

(***************************************************************************)
(* issueLIPToAllFCHosts: /sys/class/fc_host/host*/issue_lip.               *)
(***************************************************************************)
VARIABLES
    fcHostsDir,   \* /sys/class/fc_host as os.ReadDir returns it
    lpc,          \* position in issueLIPToAllFCHosts
    lidx,         \* index of the loop over fcHostEntries
    lipLog,       \* every issue_lip file the call tried to open, in order
    savedError,   \* the savedError local
    lipErr        \* the returned error

lipVars == <<fcHostsDir, lpc, lidx, lipLog, savedError, lipErr>>

FCHostDirs ==
    { [err |-> TRUE, entries |-> <<>>],
      [err |-> FALSE, entries |->
          << hostPrefix \o <<"1">>, hostPrefix \o <<"2">>, hostPrefix \o <<"3">> >>],
      [err |-> FALSE, entries |->
          << <<"x">>, hostPrefix \o <<"4">>, hostPrefix \o <<"5">>, hostPrefix \o <<"6">> >>] }

ioError(op, host) == [kind |-> op, names |-> host]

lipEvent(host, io) ==
    [host |-> host, opened |-> io.open, written |-> io.open /\ io.write,
     closed |-> io.open /\ io.close]

savedAfter(saved, host, io) ==
    IF io.open /\ ~io.write THEN ioError("write", host) ELSE saved

InitLIP ==
    /\ fcHostsDir \in FCHostDirs
    /\ lpc = "call"
    /\ lidx = 1
    /\ lipLog = <<>>
    /\ savedError = nilErr
    /\ lipErr = nilErr

IdleLIP ==
    /\ fcHostsDir = [err |-> FALSE, entries |-> <<>>]
    /\ lpc = "idle"
    /\ lidx = 1
    /\ lipLog = <<>>
    /\ savedError = nilErr
    /\ lipErr = nilErr

\* Lines 641-646: the directory is read; a ReadDir error is only logged.
LIPReadDir ==
    /\ lpc = "call"
    /\ lpc' = IF fcHostsDir.entries = <<>> THEN "done" ELSE "loop"
    /\ UNCHANGED <<fcHostsDir, lidx, lipLog, savedError, lipErr>>

\* Lines 649-671: one directory entry, and the return after the last one.
LIPHost ==
    /\ lpc = "loop"
    /\ \E io \in IOOutcomes :
        LET name   == fcHostsDir.entries[lidx]
            isHost == HasPrefix(name, hostPrefix)
            saved  == IF isHost THEN savedAfter(savedError, name, io) ELSE savedError
        IN  /\ lipLog' = IF isHost THEN Append(lipLog, lipEvent(name, io)) ELSE lipLog
            /\ savedError' = saved
            /\ IF isHost /\ closeReturns(io)
               THEN lpc' = "done" /\ lidx' = lidx /\ lipErr' = nilErr
               ELSE IF lidx = Len(fcHostsDir.entries)
               THEN lpc' = "done" /\ lidx' = lidx /\ lipErr' = saved
               ELSE lpc' = lpc /\ lidx' = lidx + 1 /\ lipErr' = lipErr
    /\ UNCHANGED fcHostsDir

(***************************************************************************)
(* issueLIPToAllFCHosts: claims.                                           *)
(***************************************************************************)
FCHostEntries == SelectSeq(fcHostsDir.entries, LAMBDA n : HasPrefix(n, hostPrefix))

EveryFCHostAttempted ==
    /\ Len(lipLog) = Len(FCHostEntries)
    /\ \A i \in 1..Len(lipLog) : lipLog[i].host = FCHostEntries[i]

LipFailed(e) == ~e.opened \/ ~e.written

LipFailure(e) == IF ~e.opened THEN ioError("open", e.host) ELSE ioError("write", e.host)

\* The error of the last logged event that satisfies failed, nil without one.
LastError(failed(_), errorOf(_)) ==
    LET at == {i \in 1..Len(lipLog) : failed(lipLog[i])}
    IN  IF at = {} THEN nilErr
        ELSE errorOf(lipLog[CHOOSE k \in at : \A j \in at : j <= k])

\* C7: if the issue_lip file of some host cannot be opened or written, the
\* call returns the last such failure, a non-nil error, and only after it
\* has attempted every host.  Stated for the calls in which every issue_lip
\* file opens, so that each failure is a failed write of "1".
C7_ReturnsLastOpenOrWriteFailure ==
    (/\ lpc = "done"
     /\ \E i \in 1..Len(lipLog) : LipFailed(lipLog[i])
     /\ \A i \in 1..Len(lipLog) : lipLog[i].opened) =>
        /\ lipErr # nilErr
        /\ lipErr = LastError(LipFailed, LipFailure)
        /\ EveryFCHostAttempted

(***************************************************************************)
(* consistentRead and getMounts: /proc/self/mountinfo.                     *)
(***************************************************************************)
VARIABLES
    mountinfo,    \* the file's content now; other processes change it
    cpc,          \* position in consistentRead
    oldContent,   \* the oldContent local
    attempt,      \* the loop variable i
    prevRead,     \* the read before the most recent one
    lastRead,     \* the most recent read
    reads,        \* number of reads made
    content,      \* what consistentRead returned to getMounts
    readErr,      \* consistentRead's error
    parsed,       \* the content getMounts handed to ReadProcMountsFrom
    rd,           \* the ReadFile in progress: what it has read so far
    held          \* every content the file has held since the call began

readVars ==
    <<mountinfo, cpc, oldContent, attempt, prevRead, lastRead, reads, content, readErr, parsed,
      rd, held>>

procMountsRetries == 30

MountTables == { <<"a">>, <<"b">>, <<"a", "b">> }

NoRead == [ok |-> FALSE, bytes |-> <<>>, raced |-> FALSE]

\* No ReadFile is in progress.
NotReading == [active |-> FALSE, chunk |-> <<>>, raced |-> FALSE]
NoContent == [some |-> FALSE, bytes |-> <<>>]
Some(bytes) == [some |-> TRUE, bytes |-> bytes]

\* Mutation of sameContent: only the lengths are compared.
sameContent_byLength(old, new) == Len(old) = Len(new)

\* Line 652: bytes.Compare(oldContent, newContent) == 0.
sameContent(old, new) == old = new

\* Mutation of returnedOnError: what was read so far accompanies the error.
returnedOnError_partial(readSoFar) == Some(readSoFar)

\* getMounts lines 663-667: with an error from consistentRead nothing is
\* parsed and the list made at entry is returned.
returnedOnError(readSoFar) == NoContent

\* Mutation of readBytes: the read stops after its first chunk.
readBytes_firstChunk(chunk, now) == chunk

\* What a ReadFile returns that read chunk when it began and reads the rest
\* of the file, which holds now, when it ends.
readBytes(chunk, now) == chunk \o SubSeq(now, Len(chunk) + 1, Len(now))

\* ioutil.ReadFile ends: it has the chunk read when it began followed by what
\* the file holds behind that chunk now, or it fails with an I/O error.
ReadResults ==
    { [ok |-> TRUE, raced |-> rd.raced, bytes |-> readBytes(rd.chunk, mountinfo)],
      [ok |-> FALSE, raced |-> rd.raced, bytes |-> <<>>] }

InitRead ==
    /\ mountinfo \in MountTables
    /\ cpc = "call"
    /\ oldContent = <<>>
    /\ attempt = 0
    /\ prevRead = NoRead
    /\ lastRead = NoRead
    /\ reads = 0
    /\ content = NoContent
    /\ readErr = "nil"
    /\ parsed = NoContent
    /\ rd = NotReading
    /\ held = {mountinfo}

IdleRead ==
    /\ mountinfo = <<>>
    /\ cpc = "idle"
    /\ oldContent = <<>>
    /\ attempt = 0
    /\ prevRead = NoRead
    /\ lastRead = NoRead
    /\ reads = 0
    /\ content = NoContent
    /\ readErr = "nil"
    /\ parsed = NoContent
    /\ rd = NotReading
    /\ held = {}

\* Another process mounts or unmounts while the call is running.
MountTableChanges ==
    /\ cpc \in {"call", "loop"}
    /\ mountinfo' \in MountTables \ {mountinfo}
    /\ held' = held \cup {mountinfo'}
    /\ rd' = IF rd.active THEN [rd EXCEPT !.raced = TRUE] ELSE rd
    /\ UNCHANGED <<cpc, oldContent, attempt, prevRead, lastRead, reads, content, readErr, parsed>>

\* Lines 643 and 648: ioutil.ReadFile begins and reads a first chunk, which
\* may be nothing, a part, or all of what the file holds.
ReadBegins ==
    /\ cpc \in {"call", "loop"}
    /\ ~rd.active
    /\ \E k \in 0..Len(mountinfo) :
           rd' = [active |-> TRUE, chunk |-> SubSeq(mountinfo, 1, k), raced |-> FALSE]
    /\ UNCHANGED <<mountinfo, cpc, oldContent, attempt, prevRead, lastRead, reads, content,
                   readErr, parsed, held>>

\* Lines 643-646: the first read.
FirstRead ==
    /\ cpc = "call"
    /\ rd.active
    /\ rd' = NotReading
    /\ \E r \in ReadResults :
        /\ prevRead' = lastRead
        /\ lastRead' = r
        /\ reads' = reads + 1
        /\ IF r.ok
           THEN /\ cpc' = "loop"
                /\ oldContent' = r.bytes
                /\ readErr' = readErr
           ELSE /\ cpc' = "done"
                /\ oldContent' = oldContent
                /\ readErr' = "read"
    /\ parsed' = parsed
    /\ UNCHANGED <<mountinfo, attempt, content, held>>

\* Lines 647-658 and 664-669: one pass of the retry loop; on a return,
\* getMounts parses the content it is given.
ReRead ==
    /\ cpc = "loop"
    /\ rd.active
    /\ rd' = NotReading
    /\ \E r \in ReadResults :
        /\ prevRead' = lastRead
        /\ lastRead' = r
        /\ reads' = reads + 1
        /\ IF ~r.ok
           THEN /\ cpc' = "done" /\ readErr' = "read"
                /\ parsed' = returnedOnError(oldContent)
                /\ UNCHANGED <<oldContent, attempt, content>>
           ELSE IF sameContent(oldContent, r.bytes)
           THEN /\ cpc' = "done" /\ readErr' = "nil"
                /\ content' = Some(r.bytes)
                /\ parsed' = Some(r.bytes)
                /\ UNCHANGED <<oldContent, attempt>>
           ELSE /\ oldContent' = r.bytes
                /\ attempt' = attempt + 1
                /\ IF attempt + 1 < procMountsRetries
                   THEN cpc' = "loop" /\ readErr' = readErr /\ parsed' = parsed
                   ELSE /\ cpc' = "done"
                        /\ readErr' = "could not get consistent content"
                        /\ parsed' = returnedOnError(r.bytes)
                /\ UNCHANGED content
    /\ UNCHANGED <<mountinfo, held>>

(***************************************************************************)
(* consistentRead: claims.                                                 *)
(***************************************************************************)
\* C4: content returned by consistentRead, and so whatever getMounts parses,
\* equals both of the two most recent reads of the file, which both succeeded.
C4_ReturnsTwiceReadContent ==
    /\ content.some =>
          /\ cpc = "done" /\ readErr = "nil"
          /\ reads >= 2
          /\ prevRead.ok /\ lastRead.ok
          /\ content.bytes = lastRead.bytes
          /\ content.bytes = prevRead.bytes
    /\ parsed.some => parsed = content
    /\ (cpc = "done" /\ readErr = "nil") => content.some

\* C4 witness: the table changed under the call, which returned on a later
\* pair of equal reads.
C4_Witness ==
    /\ cpc = "done"
    /\ content.some
    /\ reads >= 4
    /\ parsed.bytes = <<"a", "b">>

\* The record list getMounts returns: one record per entry of the parsed
\* content, the empty list when nothing was parsed.
infos == IF parsed.some THEN parsed.bytes ELSE <<>>

\* C12: when getMounts returns an error (a failed first read or re-read, or
\* no two consecutive equal reads within the first read and the 30
\* re-reads), the returned record list is empty.
C12_ErrorMeansNoRecords ==
    /\ (cpc = "done" /\ readErr # "nil") => (infos = <<>> /\ ~content.some)
    /\ readErr = "could not get consistent content" => reads = procMountsRetries + 1
    /\ readErr = "read" => ~lastRead.ok

\* C12 witness: the first read and 30 re-reads all succeeded, no two in a
\* row were equal, and the call failed with no records.
C12_Witness ==
    /\ cpc = "done"
    /\ readErr = "could not get consistent content"
    /\ reads = 31
    /\ lastRead.ok /\ lastRead.bytes # <<>>
    /\ infos = <<>>

\* C13: with another process changing the mount table while getMounts
\* runs, and single reads able to return a mixture of old and new content,
\* the content getMounts parses is a complete content the file held at one
\* instant of the call.
C13_ParsedContentWasHeld ==
    parsed.some => parsed.bytes \in held

\* C13 amended: the parsed content is what two consecutive reads both
\* returned; it is a content the file held at one instant whenever the
\* table did not change during at least one of those two reads.
C13_ParsedContentWasHeldUnlessBothReadsRaced ==
    parsed.some =>
        /\ parsed.bytes = lastRead.bytes /\ parsed.bytes = prevRead.bytes
        /\ ~(lastRead.raced /\ prevRead.raced) => parsed.bytes \in held

\* C13 witness: the table changed during the last read but not during the
\* one before, the two agreed, and the parsed content is one the file held.
C13_Witness ==
    /\ cpc = "done"
    /\ parsed.some
    /\ lastRead.raced /\ ~prevRead.raced
    /\ Cardinality(held) >= 2
    /\ parsed.bytes \in held

(***************************************************************************)
(* Validators (gofsutil_utils.go) and filepath.Clean.                      *)
(***************************************************************************)
RECURSIVE Join(_, _)
Join(elems, sep) ==
    IF elems = <<>> THEN <<>>
    ELSE IF Len(elems) = 1 THEN elems[1]
    ELSE elems[1] \o sep \o Join(Tail(elems), sep)

dotdot == <<".", ".">>

\* The components that survive filepath.Clean: empty and "." elements are
\* dropped, ".." removes the element before it, is dropped at the root and
\* is kept at the start of a relative path.
RECURSIVE cleanElems(_, _, _)
cleanElems(elems, out, rooted) ==
    IF elems = <<>> THEN out
    ELSE LET e == Head(elems)
         IN  IF e = <<>> \/ e = <<".">>
             THEN cleanElems(Tail(elems), out, rooted)
             ELSE IF e = dotdot
             THEN IF out # <<>> /\ out[Len(out)] # dotdot
                  THEN cleanElems(Tail(elems), SubSeq(out, 1, Len(out) - 1), rooted)
                  ELSE IF rooted
                  THEN cleanElems(Tail(elems), out, rooted)
                  ELSE cleanElems(Tail(elems), Append(out, e), rooted)
             ELSE cleanElems(Tail(elems), Append(out, e), rooted)

Clean(path) ==
    LET rooted == path # <<>> /\ Head(path) = "/"
        body   == Join(cleanElems(Split(path, "/"), <<>>, rooted), <<"/">>)
    IN  IF rooted THEN <<"/">> \o body
        ELSE IF body = <<>> THEN <<".">>
        ELSE body

Digits == {"0", "1", "2", "3", "4", "5", "6", "7", "8", "9"}

LowerLetters ==
    {"a", "b", "c", "d", "e", "f", "g", "h", "i", "j", "k", "l", "m",
     "n", "o", "p", "q", "r", "s", "t", "u", "v", "w", "x", "y", "z"}

UpperLetters ==
    {"A", "B", "C", "D", "E", "F", "G", "H", "I", "J", "K", "L", "M",
     "N", "O", "P", "Q", "R", "S", "T", "U", "V", "W", "X", "Y", "Z"}

\* \w
WordChars == Digits \cup LowerLetters \cup UpperLetters \cup {"_"}

\* [AaBbCcdFfhilpqrTtUuWw0-9]
MultipathFlagChars ==
    Digits \cup {"A", "a", "B", "b", "C", "c", "d", "F", "f", "h", "i", "l", "p", "q",
                 "r", "T", "t", "U", "u", "W", "w"}

mErr(kind, names, cause) == [kind |-> kind, names |-> names, cause |-> cause]

mNil == mErr("nil", <<>>, "")

\* validatePath: only "/" is refused.
validatePath(path) ==
    IF path = <<"/">> THEN mErr("invalid", <<path>>, "Path") ELSE mNil

ext3 == <<"e", "x", "t", "3">>
ext4 == <<"e", "x", "t", "4">>
xfs == <<"x", "f", "s">>
nfs == <<"n", "f", "s">>

validateFsType(t) ==
    IF t # ext4 /\ t # ext3 /\ t # xfs /\ t # nfs
    THEN mErr("invalid", <<t>>, "FsType")
    ELSE mNil

\* regexp.Match(`[\w]+[=]*[\w]*`, opt): an unanchored search, which succeeds
\* exactly when opt holds a word character.
mountOptionMatches(opt) == \E i \in 1..Len(opt) : opt[i] \in WordChars

validateMountOptions(mountOptions) ==
    LET bad == {i \in 1..Len(mountOptions) : ~mountOptionMatches(mountOptions[i])}
    IN  IF bad = {} THEN mNil
        ELSE mErr("invalid", <<mountOptions[CHOOSE k \in bad : \A j \in bad : k <= j]>>,
                  "Mount option")

\* regexp.Match(`[[-][AaBbCcdFfhilpqrTtUuWw0-9]+]*[0-9]*`, opt): an unanchored
\* search for "[" or "-" followed by a flag character.
multipathFlagMatches(opt) ==
    \E i \in 1..(Len(opt) - 1) : opt[i] \in {"[", "-"} /\ opt[i + 1] \in MultipathFlagChars

\* Mutation of validateMultipathArgs: the path is checked as given.
validateMultipathArgs_uncleaned(options) ==
    LET bad == {i \in 1..Len(options) :
                   /\ ~multipathFlagMatches(options[i])
                   /\ validatePath(options[i]) # mNil}
    IN  IF bad = {} THEN mNil
        ELSE mErr("invalid", <<options[CHOOSE k \in bad : \A j \in bad : k <= j]>>,
                  "Multipath option")

\* gofsutil_utils.go lines 104-121.
validateMultipathArgs(options) ==
    LET bad == {i \in 1..Len(options) :
                   /\ ~multipathFlagMatches(options[i])
                   /\ validatePath(Clean(options[i])) # mNil}
    IN  IF bad = {} THEN mNil
        ELSE mErr("invalid", <<options[CHOOSE k \in bad : \A j \in bad : k <= j]>>,
                  "Multipath option")

\* Mutation of validateMountArgs: the target is not checked.
validateMountArgs_targetUnchecked(src, tgt, t, o) ==
    IF validatePath(Clean(src)) # mNil THEN validatePath(Clean(src))
    ELSE IF t # <<>> /\ validateFsType(t) # mNil THEN validateFsType(t)
    ELSE validateMountOptions(o)

\* part_003 lines 75-94.
validateMountArgs(src, tgt, t, o) ==
    IF validatePath(Clean(src)) # mNil THEN validatePath(Clean(src))
    ELSE IF validatePath(Clean(tgt)) # mNil THEN validatePath(Clean(tgt))
    ELSE IF t # <<>> /\ validateFsType(t) # mNil THEN validateFsType(t)
    ELSE validateMountOptions(o)

(***************************************************************************)
(* mount, bindMount, unmount, multipathCommand, getDiskFormat and          *)
(* formatAndMount.                                                         *)
(***************************************************************************)
VARIABLES
    op,             \* which method is called
    source,         \* its source argument
    target,         \* its target argument (the only argument of unmount)
    fsType,         \* its fsType argument
    opts,           \* its opts (the arguments of multipathCommand)
    noDiscard,      \* ctx carries NoDiscard
    chroot,         \* multipathCommand's chroot argument
    mpc,            \* position in the call
    effects,        \* external processes spawned and syscalls issued, in order
    mountAttempts,  \* formatAndMount's calls of fs.mount: result and processes spawned
    diskFormat,     \* what getDiskFormat returned to formatAndMount
    mountRet        \* the returned error

mountVars ==
    <<op, source, target, fsType, opts, noDiscard, chroot, mpc, effects,
      mountAttempts, diskFormat, mountRet>>

MaxOpts == 2

bind == <<"b", "i", "n", "d">>
remount == <<"r", "e", "m", "o", "u", "n", "t">>
defaults == <<"d", "e", "f", "a", "u", "l", "t", "s">>
rw == <<"r", "w">>
blankOpt == <<" ">>
fsFormatOptionName == <<"f", "s", "F", "o", "r", "m", "a", "t", "O", "p", "t", "i", "o", "n">>
formatOpt == fsFormatOptionName \o <<":", "-", "b", " ", "1">>
mountCmd == <<"m", "o", "u", "n", "t">>
mkfsPrefix == <<"m", "k", "f", "s", ".">>
lsblkCmd == <<"l", "s", "b", "l", "k">>
multipathCmd == <<"/", "u", "s", "r", "/", "s", "b", "i", "n", "/", "m", "u", "l", "t", "i", "p", "a", "t", "h">>
chrootCmd == <<"/", "u", "s", "r", "/", "s", "b", "i", "n", "/", "c", "h", "r", "o", "o", "t">>
noderoot == <<"/", "n", "o", "d", "e", "r", "o", "o", "t">>
partitions ==
    <<"u", "n", "k", "n", "o", "w", "n", " ", "d", "a", "t", "a", ",", " ", "p", "r", "o",
      "b", "a", "b", "l", "y", " ", "p", "a", "r", "t", "i", "t", "i", "o", "n", "s">>

bindRemountOpts == <<remount>>

Sources == { <<"/", "d">>, <<"/", "d", "/", ".", ".">> }
Targets == { <<"/", "m">>, <<"/">>, <<"m", "/", ".", ".">> }
FsTypes == { <<>>, ext4, xfs, <<"E", "X", "T", "4">> }
OptNames == { bind, rw, blankOpt, formatOpt }
MultipathArgs == { <<"-", "f">>, <<"/", "d">>, <<"/", "/">>, <<>> }
Chroots == { <<>>, noderoot }

\* Exit of a spawned mount / mkfs / multipath process, or of the syscall.
ExecOutcomes == {"ok", "exit status 1", "exit status 32"}

\* lsblk -n -o FSTYPE <disk>: it fails, or prints one line per device.
LsblkOutcomes ==
    { [err |-> TRUE, out |-> <<>>],
      [err |-> FALSE, out |-> <<"\n">>],
      [err |-> FALSE, out |-> <<>>],
      [err |-> FALSE, out |-> <<"\n", "\n">>],
      [err |-> FALSE, out |-> ext4 \o <<"\n">>],
      [err |-> FALSE, out |-> xfs \o <<"\n", "\n">>] }

effect(kind, cmd, args, mountOpts, result) ==
    [kind |-> kind, cmd |-> cmd, args |-> args, opts |-> mountOpts, result |-> result]

\* What a call did and returned.
outcome(fx, err) == [effects |-> fx, err |-> err]

\* part_003 lines 159-176.
isBind(o) ==
    [opts |-> bindRemountOpts \o SelectSeq(o, LAMBDA x : x # bind /\ x # remount),
     bind |-> InSeq(bind, o)]

\* part_003 lines 97-128; exit is what the mount process does.
doMount(mntCmd, src, tgt, t, o, exit) ==
    IF validateMountArgs(src, tgt, t, o) # mNil
    THEN outcome(<<>>, validateMountArgs(src, tgt, t, o))
    ELSE outcome(<<effect("exec", mntCmd, <<src, tgt, t>>, o, exit)>>,
                 IF exit = "ok" THEN mNil ELSE mErr("mount failed", <<src, tgt>>, exit))

\* Mutation of bindMount: the second mount is made whatever the first did.
bindMount_ignoresFirst(src, tgt, o, exit1, exit2) ==
    LET first  == doMount(mountCmd, src, tgt, <<>>, <<bind>>, exit1)
        second == doMount(mountCmd, src, tgt, <<>>, o, exit2)
    IN  outcome(first.effects \o second.effects, second.err)

\* gofsutil_mount_linux.go lines 283-293.
bindMount(src, tgt, o, exit1, exit2) ==
    LET first  == doMount(mountCmd, src, tgt, <<>>, <<bind>>, exit1)
        second == doMount(mountCmd, src, tgt, <<>>, o, exit2)
    IN  IF first.err # mNil THEN first
        ELSE outcome(first.effects \o second.effects, second.err)

\* part_003 lines 62-72.
mount(src, tgt, t, o, exit1, exit2) ==
    IF isBind(o).bind
    THEN bindMount(src, tgt, isBind(o).opts, exit1, exit2)
    ELSE doMount(mountCmd, src, tgt, t, o, exit1)

\* part_003 lines 131-150.
unmount(tgt, exit) ==
    IF validatePath(Clean(tgt)) # mNil
    THEN outcome(<<>>, validatePath(Clean(tgt)))
    ELSE outcome(<<effect("syscall", <<"u", "m", "o", "u", "n", "t">>, <<Clean(tgt)>>, <<>>, exit)>>,
                 IF exit = "ok" THEN mNil ELSE mErr("unmount failed", <<tgt>>, exit))

\* part_003 lines 580-611.
multipathCommand(root, arguments, exit) ==
    IF validateMultipathArgs(arguments) # mNil
    THEN outcome(<<>>, validateMultipathArgs(arguments))
    ELSE outcome(
             << IF root = <<>>
                THEN effect("exec", multipathCmd, arguments, <<>>, exit)
                ELSE effect("exec", chrootCmd, <<root, multipathCmd>> \o arguments, <<>>, exit) >>,
             IF exit = "ok" THEN mNil ELSE mErr("multipath failed", <<>>, exit))

\* gofsutil_mount_linux.go lines 44-86; lsblk is what the lsblk process does.
getDiskFormat(disk, lsblk) ==
    IF validatePath(Clean(disk)) # mNil
    THEN [effects |-> <<>>, format |-> <<>>, err |-> validatePath(Clean(disk))]
    ELSE LET fx    == <<effect("exec", lsblkCmd,
                               << <<"-", "n">>, <<"-", "o">>, <<"F", "S", "T", "Y", "P", "E">>, disk >>,
                               <<>>, IF lsblk.err THEN "exit status 1" ELSE "ok")>>
             out   == IF HasSuffix(lsblk.out, <<"\n">>)
                      THEN SubSeq(lsblk.out, 1, Len(lsblk.out) - 1)
                      ELSE lsblk.out
             lines == Split(out, "\n")
         IN  IF lsblk.err
             THEN [effects |-> fx, format |-> <<>>, err |-> mErr("lsblk failed", <<disk>>, "exit status 1")]
             ELSE IF lines[1] # <<>>
             THEN [effects |-> fx, format |-> lines[1], err |-> mNil]
             ELSE IF Len(lines) = 1
             THEN [effects |-> fx, format |-> <<>>, err |-> mNil]
             ELSE [effects |-> fx, format |-> partitions, err |-> mNil]

\* formatAndMount lines 105-117: a trailing fsFormatOption: entry is taken
\* off the mount options and split into mkfs arguments.
hasFormatOption(o) ==
    Len(o) > 0 /\ HasPrefix(o[Len(o)], fsFormatOptionName \o <<":">>)

fsFormatOptionOf(o) ==
    IF hasFormatOption(o)
    THEN Split(SubSeq(o[Len(o)], Len(fsFormatOptionName) + 1, Len(o[Len(o)])), " ")
    ELSE <<>>

mountOptsOf(o) ==
    (IF hasFormatOption(o) THEN SubSeq(o, 1, Len(o) - 1) ELSE o) \o <<defaults>>

\* Mutation of mkfsType: no default file system.
mkfsType_asGiven(t) == t

\* Lines 153-155.
mkfsType(t) == IF Len(t) = 0 THEN ext4 ELSE t

\* Lines 151-188.
mkfsArgs(src, t, fsFormatOption, nodiscard) ==
    LET isExt == t = ext4 \/ t = ext3
        F     == <<"-", "F">>
        E     == <<"-", "E">>
        K     == <<"-", "K">>
        nd    == <<"n", "o", "d", "i", "s", "c", "a", "r", "d">>
    IN  IF Len(fsFormatOption) = 0
        THEN LET a1 == IF isExt
                       THEN IF nodiscard THEN <<F, E, nd, src>> ELSE <<F, src>>
                       ELSE <<src>>
                 a2 == IF t = xfs /\ nodiscard THEN <<K, src>> ELSE a1
             IN  IF t = xfs THEN a2 \o << <<"-", "m">>, <<"c", "r", "c", "=", "0">> >> ELSE a2
        ELSE IF nodiscard
        THEN IF t = xfs THEN fsFormatOption \o <<K, src>>
             ELSE IF isExt THEN fsFormatOption \o <<E, nd, src>>
             ELSE <<src>>
        ELSE fsFormatOption \o <<src>>

\* Mutation of isUnformatted: a disk of another format is formatted too.
isUnformatted_orOther(existingFormat, t) == existingFormat = <<>> \/ existingFormat # t

\* Line 148.
isUnformatted(existingFormat, t) == existingFormat = <<>>

\* Mutation of keepsMountError: an unspecified fsType no longer passes.
keepsMountError_exact(t, existingFormat) == t = existingFormat

\* Line 211: the disk is formatted and the first mount error is returned.
keepsMountError(t, existingFormat) == Len(t) = 0 \/ t = existingFormat

attemptOf(res) == [err |-> res.err, spawned |-> Len(res.effects)]

NoFormat == [called |-> FALSE, format |-> <<>>, err |-> mNil]

Methods == {"mount", "bindMount", "formatAndMount", "unmount", "multipathCommand"}

InitMount ==
    /\ op \in Methods
    /\ source \in (IF op \in {"mount", "bindMount", "formatAndMount"} THEN Sources ELSE {<<>>})
    /\ target \in (IF op \in {"mount", "bindMount", "formatAndMount", "unmount"}
                   THEN Targets ELSE {<<>>})
    /\ fsType \in (IF op \in {"mount", "formatAndMount"} THEN FsTypes ELSE {<<>>})
    /\ opts \in (IF op \in {"mount", "bindMount", "formatAndMount"}
                 THEN SeqsUpTo(OptNames, MaxOpts)
                 ELSE IF op = "multipathCommand" THEN SeqsUpTo(MultipathArgs, MaxOpts)
                 ELSE {<<>>})
    /\ noDiscard \in (IF op = "formatAndMount" THEN BOOLEAN ELSE {FALSE})
    /\ chroot \in (IF op = "multipathCommand" THEN Chroots ELSE {<<>>})
    /\ mpc = "call"
    /\ effects = <<>>
    /\ mountAttempts = <<>>
    /\ diskFormat = NoFormat
    /\ mountRet = mNil

IdleMount ==
    /\ op = "none"
    /\ source = <<>>
    /\ target = <<>>
    /\ fsType = <<>>
    /\ opts = <<>>
    /\ noDiscard = FALSE
    /\ chroot = <<>>
    /\ mpc = "idle"
    /\ effects = <<>>
    /\ mountAttempts = <<>>
    /\ diskFormat = NoFormat
    /\ mountRet = mNil

mountArgs == <<op, source, target, fsType, opts, noDiscard, chroot>>

returns(res) ==
    /\ effects' = effects \o res.effects
    /\ mountRet' = res.err
    /\ mpc' = "done"

\* fs.mount(ctx, source, target, fsType, opts...)
MountCall ==
    /\ op = "mount" /\ mpc = "call"
    /\ \E exit1 \in ExecOutcomes, exit2 \in ExecOutcomes :
           returns(mount(source, target, fsType, opts, exit1, exit2))
    /\ UNCHANGED <<mountArgs, mountAttempts, diskFormat>>

\* fs.bindMount(ctx, source, target, opts...)
BindMountCall ==
    /\ op = "bindMount" /\ mpc = "call"
    /\ \E exit1 \in ExecOutcomes, exit2 \in ExecOutcomes :
           returns(bindMount(source, target, opts, exit1, exit2))
    /\ UNCHANGED <<mountArgs, mountAttempts, diskFormat>>

\* fs.unmount(ctx, target)
UnmountCall ==
    /\ op = "unmount" /\ mpc = "call"
    /\ \E exit \in ExecOutcomes : returns(unmount(target, exit))
    /\ UNCHANGED <<mountArgs, mountAttempts, diskFormat>>

\* fs.multipathCommand(ctx, timeout, chroot, arguments...)
MultipathCall ==
    /\ op = "multipathCommand" /\ mpc = "call"
    /\ \E exit \in ExecOutcomes : returns(multipathCommand(chroot, opts, exit))
    /\ UNCHANGED <<mountArgs, mountAttempts, diskFormat>>

\* formatAndMount lines 97-131: validation and the first mount attempt.
FormatAndMountFirst ==
    /\ op = "formatAndMount" /\ mpc = "call"
    /\ IF validateMountArgs(source, target, fsType, opts) # mNil
       THEN /\ returns(outcome(<<>>, validateMountArgs(source, target, fsType, opts)))
            /\ UNCHANGED mountAttempts
       ELSE \E exit1 \in ExecOutcomes, exit2 \in ExecOutcomes :
                LET res == mount(source, target, fsType, mountOptsOf(opts), exit1, exit2)
                IN  /\ effects' = effects \o res.effects
                    /\ mountAttempts' = <<attemptOf(res)>>
                    /\ mountRet' = mNil
                    /\ mpc' = IF res.err = mNil THEN "done" ELSE "probe"
    /\ UNCHANGED <<mountArgs, diskFormat>>

\* The Mismatch error of lines 218-220.
mismatch(t, existingFormat, mountErr) == mErr("mismatch", <<t, existingFormat>>, mountErr.cause)

\* formatAndMount lines 136-147 and 210-220: getDiskFormat and, for a
\* formatted disk, the returned error.
FormatAndMountProbe ==
    /\ op = "formatAndMount" /\ mpc = "probe"
    /\ \E lsblk \in LsblkOutcomes :
           LET d == getDiskFormat(source, lsblk)
           IN  /\ effects' = effects \o d.effects
               /\ diskFormat' = [called |-> TRUE, format |-> d.format, err |-> d.err]
               /\ IF d.err # mNil
                  THEN mountRet' = d.err /\ mpc' = "done"
                  ELSE IF isUnformatted(d.format, fsType)
                  THEN mountRet' = mountRet /\ mpc' = "format"
                  ELSE IF keepsMountError(fsType, d.format)
                  THEN mountRet' = mountAttempts[1].err /\ mpc' = "done"
                  ELSE /\ mountRet' = mismatch(fsType, d.format, mountAttempts[1].err)
                       /\ mpc' = "done"
    /\ UNCHANGED <<mountArgs, mountAttempts>>

\* formatAndMount lines 148-207: mkfs and the second mount attempt.
FormatAndMountFormat ==
    /\ op = "formatAndMount" /\ mpc = "format"
    /\ \E mkfsExit \in ExecOutcomes, exit1 \in ExecOutcomes, exit2 \in ExecOutcomes :
           LET t    == mkfsType(fsType)
               mkfs == effect("exec", mkfsPrefix \o t,
                              mkfsArgs(source, t, fsFormatOptionOf(opts), noDiscard),
                              <<>>, mkfsExit)
               res  == mount(source, target, t, mountOptsOf(opts), exit1, exit2)
           IN  /\ effects' = effects \o <<mkfs>> \o res.effects
               /\ mountAttempts' = Append(mountAttempts, attemptOf(res))
               /\ mountRet' = res.err
               /\ mpc' = "done"
    /\ UNCHANGED <<mountArgs, diskFormat>>

(***************************************************************************)
(* mount, formatAndMount: claims.                                          *)
(***************************************************************************)
IsMkfs(e) == e.kind = "exec" /\ HasPrefix(e.cmd, mkfsPrefix)

MkfsRuns == SelectSeq(effects, IsMkfs)

FirstMountFailed == Len(mountAttempts) >= 1 /\ mountAttempts[1].err # mNil

FormatReported == diskFormat.called /\ diskFormat.err = mNil

BlankFormat == FormatReported /\ diskFormat.format = <<>>

DetectedFormat == FormatReported /\ diskFormat.format # <<>>

\* C3: formatAndMount runs mkfs at most once, and only when the first mount
\* attempt failed and getDiskFormat returned a blank format without error;
\* never after a successful first mount, a getDiskFormat error or a
\* non-empty format.
C3_MkfsOnlyWhenUnformatted ==
    /\ Len(MkfsRuns) <= 1
    /\ Len(MkfsRuns) = 1 => op = "formatAndMount" /\ FirstMountFailed /\ BlankFormat
    /\ (Len(mountAttempts) >= 1 /\ mountAttempts[1].err = mNil) => MkfsRuns = <<>>
    /\ (diskFormat.called /\ diskFormat.err # mNil) => MkfsRuns = <<>>
    /\ DetectedFormat => MkfsRuns = <<>>

\* C3 witness: the first mount failed, lsblk printed one empty line, and
\* mkfs ran once.
C3_Witness ==
    /\ op = "formatAndMount" /\ mpc = "done"
    /\ FirstMountFailed /\ BlankFormat
    /\ Len(MkfsRuns) = 1

\* C8: when the first mount attempt fails and the format is blank,
\* mkfs.<fsType> (mkfs.ext4 without an fsType) runs exactly once, after it
\* exactly one more mount attempt is made whatever mkfs returned, and that
\* attempt's result is what formatAndMount returns.
C8_FormatThenRetryOnce ==
    (op = "formatAndMount" /\ mpc = "done" /\ FirstMountFailed /\ BlankFormat) =>
        LET first == mountAttempts[1].spawned
        IN  /\ Len(MkfsRuns) = 1
            /\ MkfsRuns[1].cmd = mkfsPrefix \o (IF fsType = <<>> THEN ext4 ELSE fsType)
            /\ Len(mountAttempts) = 2
            /\ Len(effects) = first + 2 + mountAttempts[2].spawned
            /\ IsMkfs(effects[first + 2])
            /\ \A i \in (first + 3)..Len(effects) : effects[i].cmd = mountCmd
            /\ mountRet = mountAttempts[2].err

\* C8 witness: mkfs failed, the mount was retried all the same and
\* succeeded, and formatAndMount returned nil.
C8_Witness ==
    /\ op = "formatAndMount" /\ mpc = "done"
    /\ FirstMountFailed /\ BlankFormat
    /\ Len(MkfsRuns) = 1 /\ MkfsRuns[1].result # "ok"
    /\ Len(mountAttempts) = 2 /\ mountAttempts[2].err = mNil
    /\ mountRet = mNil

IsMismatch(err) ==
    /\ err.kind = "mismatch"
    /\ err.names = <<fsType, diskFormat.format>>

NoFormatNoRetry == MkfsRuns = <<>> /\ Len(mountAttempts) = 1

\* C9: when the first mount attempt fails and getDiskFormat reports a
\* non-empty format that differs from fsType, or any non-empty format while
\* fsType is unspecified, formatAndMount returns a Mismatch error naming the
\* requested and the detected format, with no mkfs and no second mount.
C9_MismatchWhenDifferentOrUnspecified ==
    (/\ op = "formatAndMount" /\ mpc = "done"
     /\ FirstMountFailed /\ DetectedFormat
     /\ (diskFormat.format # fsType \/ fsType = <<>>)) =>
        IsMismatch(mountRet) /\ NoFormatNoRetry

\* C9 amended: with a non-empty detected format there is no mkfs and no
\* second mount; the Mismatch error naming both formats is returned only
\* when an fsType was given and differs from the detected one, and without
\* an fsType (as with an equal one) the first mount error is returned.
C9_MismatchOnlyWhenRequestedDiffers ==
    (op = "formatAndMount" /\ mpc = "done" /\ FirstMountFailed /\ DetectedFormat) =>
        /\ NoFormatNoRetry
        /\ IF fsType # <<>> /\ fsType # diskFormat.format
           THEN IsMismatch(mountRet) /\ mountRet.cause = mountAttempts[1].err.cause
           ELSE mountRet = mountAttempts[1].err

\* C9 witness: no fsType was given, the disk holds xfs, and the first
\* mount error came back.
C9_Witness ==
    /\ op = "formatAndMount" /\ mpc = "done"
    /\ FirstMountFailed /\ DetectedFormat
    /\ fsType = <<>> /\ diskFormat.format = xfs
    /\ mountRet = mountAttempts[1].err
    /\ NoFormatNoRetry

ValidationFailed == mpc = "done" /\ mountRet.kind = "invalid"

\* C10: a call of mount, bindMount, formatAndMount, unmount or
\* multipathCommand that returns a validation error has spawned no process
\* and issued no syscall.
C10_ValidationErrorMeansNoEffect ==
    ValidationFailed => effects = <<>>

(***************************************************************************)
(* rescanSCSIHost: the LUN field, lines 318-332, over many lun arguments.  *)
(***************************************************************************)
VARIABLES
    lunArg,      \* the lun argument
    lunField,    \* the lun local after lines 321-332
    npc          \* position in the call

lunVars == <<lunArg, lunField, npc>>

MaxLunLen == 3

LunAlphabet == {"0", "1", "9", "a", "F", "g", "x", "-", "+"}

\* Longer arguments around the 32-bit limits, and a 0x prefix.
LongLuns ==
    { <<"7", "f", "f", "f", "f", "f", "f", "f">>,
      <<"8", "0", "0", "0", "0", "0", "0", "0">>,
      <<"-", "8", "0", "0", "0", "0", "0", "0", "0">>,
      <<"-", "8", "0", "0", "0", "0", "0", "0", "1">>,
      <<"1", "0", "0", "0", "0", "0", "0", "0", "0">>,
      <<"0", "0", "0", "0", "0", "0", "0", "0", "f", "f">>,
      <<"0", "x", "1", "f">>,
      <<"0", "X", "0", "0", "5", "0">> }

LunStrings == SeqsUpTo(LunAlphabet, MaxLunLen) \cup LongLuns

InitLun ==
    /\ lunArg \in LunStrings
    /\ lunField = lunArg
    /\ npc = "call"

IdleLun ==
    /\ lunArg = <<>>
    /\ lunField = <<>>
    /\ npc = "idle"

\* Lines 321-332.
NormalizeLun ==
    /\ npc = "call"
    /\ lunField' = normalizeLun(lunArg)
    /\ npc' = "normalized"
    /\ UNCHANGED lunArg

(***************************************************************************)
(* rescanSCSIHost, LUN field: claims.                                      *)
(***************************************************************************)
IsDecimalDigit(c) == c \in {"0", "1", "2", "3", "4", "5", "6", "7", "8", "9"}

DecimalDigitValue(c) == CHOOSE v \in 0..9 : HexDigits[v + 1] = c

RECURSIVE DecimalMagnitude(_)
DecimalMagnitude(s) ==
    IF s = <<>> THEN 0
    ELSE DecimalMagnitude(SubSeq(s, 1, Len(s) - 1)) * 10 + DecimalDigitValue(s[Len(s)])

Unsigned(s) == IF s # <<>> /\ Head(s) \in {"+", "-"} THEN Tail(s) ELSE s

\* The argument is an optionally signed run of hexadecimal digits.
IsHexNumeral(s) ==
    Unsigned(s) # <<>> /\ \A i \in 1..Len(Unsigned(s)) : IsHexDigit(Unsigned(s)[i])

\* Its magnitude is below 2^31: at most 8 significant digits, the first of
\* them below 8 when there are 8.
Below2To31(s) ==
    LET d == StripZeros(Unsigned(s))
    IN  Len(d) < 8 \/ (Len(d) = 8 /\ HexVal(d[1]) < 8)

\* A canonical decimal numeral: a minus sign for negatives, no leading zeros.
IsDecimalOf(field, negative, magnitude) ==
    LET digits == IF field # <<>> /\ Head(field) = "-" THEN Tail(field) ELSE field
    IN  /\ digits # <<>>
        /\ \A i \in 1..Len(digits) : IsDecimalDigit(digits[i])
        /\ Len(digits) > 1 => Head(digits) # "0"
        /\ (field[1] = "-") <=> (negative /\ magnitude # 0)
        /\ DecimalMagnitude(digits) = magnitude

\* C14: the LUN field of the scan strings is "-" for an empty lun, the
\* decimal rendering of the value for a lun that parses as a hexadecimal
\* number (signed digits, within 32 bits), and "-" for any other lun.
C14_LunFieldIsDecimalOrWildcard ==
    npc = "normalized" =>
        IF lunArg = <<>> THEN lunField = wildcard
        ELSE IF IsHexNumeral(lunArg) /\ Below2To31(lunArg)
        THEN IsDecimalOf(lunField, Head(lunArg) = "-", HexMagnitude(StripZeros(Unsigned(lunArg))))
        ELSE IF lunArg = <<"-">> \o MinInt32Digits
        THEN lunField = <<"-", "2", "1", "4", "7", "4", "8", "3", "6", "4", "8">>
        ELSE lunField = wildcard

\* C14 witness: the hexadecimal lun "1F" became the decimal "31".
C14_Witness ==
    /\ npc = "normalized"
    /\ lunArg = <<"1", "F">>
    /\ lunField = <<"3", "1">>

(***************************************************************************)
(* bindMount: claims.                                                      *)
(***************************************************************************)
IsMountOf(e, src, tgt) ==
    e.kind = "exec" /\ e.cmd = mountCmd /\ e.args[1] = src /\ e.args[2] = tgt

\* C16: every bindMount call performs exactly two mount invocations: first
\* one whose only option is "bind", then one of the same source and target
\* with the caller's options.  Stated for the calls whose source, target and
\* options are valid.
C16_BindMountAlwaysMountsTwice ==
    (/\ op = "bindMount" /\ mpc = "done"
     /\ Clean(source) # <<"/">> /\ Clean(target) # <<"/">>
     /\ validateMountOptions(opts) = mNil) =>
        /\ Len(effects) = 2
        /\ IsMountOf(effects[1], source, target) /\ effects[1].opts = <<bind>>
        /\ IsMountOf(effects[2], source, target) /\ effects[2].opts = opts

\* Through fs.mount the requested options are the caller's without "bind"
\* and "remount", behind a leading "remount".
RequestedBindOpts ==
    IF op = "bindMount" THEN opts
    ELSE <<remount>> \o SelectSeq(opts, LAMBDA x : x # bind /\ x # remount)

IsBindCall == op = "bindMount" \/ (op = "mount" /\ InSeq(bind, opts))

PathsValid == Clean(source) # <<"/">> /\ Clean(target) # <<"/">>

\* C16 amended: a bind mount performs at most two mount invocations, the
\* first with the only option "bind", the second, of the same source and
\* target with the requested options, only after the first succeeded; there
\* are exactly two when source, target and options are valid and the first
\* succeeds, none when source or target is invalid, and the error of a
\* failed first mount is returned.
C16_BindMountMountsTwiceAfterFirstSucceeds ==
    (IsBindCall /\ mpc = "done") =>
        /\ Len(effects) <= 2
        /\ \A i \in 1..Len(effects) : IsMountOf(effects[i], source, target)
        /\ Len(effects) >= 1 => effects[1].opts = <<bind>>
        /\ Len(effects) = 2 => effects[1].result = "ok" /\ effects[2].opts = RequestedBindOpts
        /\ Len(effects) = 0 <=> ~PathsValid
        /\ (PathsValid /\ effects[1].result = "ok"
                /\ validateMountOptions(RequestedBindOpts) = mNil) => Len(effects) = 2
        /\ (PathsValid /\ effects[1].result # "ok") =>
               (Len(effects) = 1 /\ mountRet.kind = "mount failed"
                    /\ mountRet.cause = effects[1].result)
        /\ Len(effects) = 2 =>
               mountRet = (IF effects[2].result = "ok" THEN mNil
                           ELSE mErr("mount failed", <<source, target>>, effects[2].result))

\* C16 witness: a bindMount call with the option "rw" made the "bind" mount
\* and then the "rw" mount, which failed.
C16_Witness ==
    /\ op = "bindMount" /\ mpc = "done"
    /\ opts = <<rw>>
    /\ Len(effects) = 2
    /\ effects[1].opts = <<bind>> /\ effects[1].result = "ok"
    /\ effects[2].opts = <<rw>> /\ effects[2].result = "exit status 32"
    /\ mountRet.kind = "mount failed"

(***************************************************************************)
(* wwnToDevicePath: the symlinks of /dev/disk/by-id.                       *)
(***************************************************************************)
VARIABLES
    wwn,        \* wwnToDevicePath's argument
    byId,       \* entry name of /dev/disk/by-id -> what Readlink gives for it
    wpc,        \* position in the call
    wwnRet      \* the returned symlink path, device path and error

wwnVars == <<wwn, byId, wpc, wwnRet>>

multipathDevDiskByID ==
    <<"/", "d", "e", "v", "/", "d", "i", "s", "k", "/", "b", "y", "-", "i", "d", "/">>
MultipathDevDiskByIDPrefix ==
    multipathDevDiskByID \o
        <<"d", "m", "-", "u", "u", "i", "d", "-", "m", "p", "a", "t", "h", "-", "3">>
nvmeEui == <<"n", "v", "m", "e", "-", "e", "u", "i", ".">>
wwn0x == <<"w", "w", "n", "-", "0", "x">>
dev == <<"/", "d", "e", "v", "/">>

Wwns == { <<"6", "a">>, <<>> }

\* os.Readlink: an error, or the target the link holds.
NoLink == [ok |-> FALSE, target |-> <<>>]
Link(linkTarget) == [ok |-> TRUE, target |-> linkTarget]
Links ==
    { NoLink,
      Link(<<".", ".", "/", ".", ".", "/", "s", "d", "a">>),
      Link(<<"/", "d", "e", "v", "/", "m", "a", "p", "p", "e", "r", "/", "m", "p">>),
      Link(<<"d", "m", "-", "1">>) }

\* The three entries of /dev/disk/by-id that belong to a WWN.
ByIdNames(w) ==
    { SubSeq(MultipathDevDiskByIDPrefix, Len(multipathDevDiskByID) + 1,
             Len(MultipathDevDiskByIDPrefix)) \o w,
      nvmeEui \o w,
      wwn0x \o w }

\* filepath.Join of a directory and one element.
filepathJoin(dir, elem) == Clean(dir \o <<"/">> \o elem)

\* os.Readlink(path) on a machine whose /dev/disk/by-id holds links.
readlink(path, links) ==
    LET name == SubSeq(path, Len(multipathDevDiskByID) + 1, Len(path))
    IN  IF HasPrefix(path, multipathDevDiskByID) /\ name \in DOMAIN links
        THEN links[name]
        ELSE NoLink

\* Mutation of candidatePaths: the plain WWN link is tried before the NVMe one.
candidatePaths_wwnBeforeNvme(w) ==
    << MultipathDevDiskByIDPrefix \o w,
       filepathJoin(multipathDevDiskByID, wwn0x \o w),
       filepathJoin(multipathDevDiskByID, nvmeEui \o w) >>

\* Lines 240, 245 and 249: the symlink paths tried, in order.
candidatePaths(w) ==
    << MultipathDevDiskByIDPrefix \o w,
       filepathJoin(multipathDevDiskByID, nvmeEui \o w),
       filepathJoin(multipathDevDiskByID, wwn0x \o w) >>

\* Lines 258-262.
deviceOf(symlinkPath, devPath) ==
    [symlinkPath |-> symlinkPath,
     devPath |-> dev \o Split(devPath, "/")[Len(Split(devPath, "/"))],
     err |-> FALSE]

\* Lines 236-263.
wwnToDevicePath(w, links) ==
    LET c  == candidatePaths(w)
        l1 == readlink(c[1], links)
        l2 == readlink(c[2], links)
        l3 == readlink(c[3], links)
    IN  IF l1.ok /\ l1.target # <<>> THEN deviceOf(c[1], l1.target)
        ELSE IF l2.ok /\ l2.target # <<>> THEN deviceOf(c[2], l2.target)
        ELSE IF ~l3.ok THEN [symlinkPath |-> <<>>, devPath |-> <<>>, err |-> TRUE]
        ELSE deviceOf(c[3], l3.target)

NoWwnRet == [symlinkPath |-> <<>>, devPath |-> <<>>, err |-> FALSE]

InitWwn ==
    /\ wwn \in Wwns
    /\ byId \in [ByIdNames(wwn) -> Links]
    /\ wpc = "call"
    /\ wwnRet = NoWwnRet

IdleWwn ==
    /\ wwn = <<>>
    /\ byId = [n \in ByIdNames(<<>>) |-> NoLink]
    /\ wpc = "idle"
    /\ wwnRet = NoWwnRet

WwnToDevicePath ==
    /\ wpc = "call"
    /\ wwnRet' = wwnToDevicePath(wwn, byId)
    /\ wpc' = "done"
    /\ UNCHANGED <<wwn, byId>>

(***************************************************************************)
(* wwnToDevicePath: claims.                                                *)
(***************************************************************************)
\* The candidates in the order of preference: multipath, NVMe, plain WWN.
Candidates ==
    << <<"d", "m", "-", "u", "u", "i", "d", "-", "m", "p", "a", "t", "h", "-", "3">> \o wwn,
       <<"n", "v", "m", "e", "-", "e", "u", "i", ".">> \o wwn,
       <<"w", "w", "n", "-", "0", "x">> \o wwn >>

Resolving == {i \in 1..3 : byId[Candidates[i]].ok}

FinalComponent(path) == Split(path, "/")[Len(Split(path, "/"))]

\* C17: wwnToDevicePath returns the symlink path and "/dev/<final component
\* of the link target>" of the first candidate, in the order
\* dm-uuid-mpath-3<wwn>, nvme-eui.<wwn>, wwn-0x<wwn>, whose symlink resolves,
\* whatever other candidates exist; it returns an error exactly when none of
\* the three resolves.
C17_FirstResolvingCandidateWins ==
    wpc = "done" =>
        /\ wwnRet.err <=> Resolving = {}
        /\ Resolving # {} =>
              LET first == CHOOSE i \in Resolving : \A j \in Resolving : i <= j
              IN  /\ wwnRet.symlinkPath =
                         <<"/", "d", "e", "v", "/", "d", "i", "s", "k", "/", "b", "y", "-",
                           "i", "d", "/">> \o Candidates[first]
                  /\ wwnRet.devPath =
                         <<"/", "d", "e", "v", "/">> \o FinalComponent(byId[Candidates[first]].target)

\* C17 witness: the NVMe and the plain WWN link both exist, the multipath
\* link does not, and the NVMe link's device was returned.
C17_Witness ==
    /\ wpc = "done"
    /\ wwn = <<"6", "a">>
    /\ Resolving = {2, 3}
    /\ byId[Candidates[2]].target # byId[Candidates[3]].target
    /\ wwnRet.symlinkPath = multipathDevDiskByID \o nvmeEui \o wwn
    /\ wwnRet.devPath = <<"/", "d", "e", "v", "/", "m", "p">>
    /\ ~wwnRet.err

(***************************************************************************)
(* targetIPLUNToDevicePath: the symlinks of /dev/disk/by-path.             *)
(***************************************************************************)
VARIABLES
    targetIP,    \* targetIPLUNToDevicePath's targetIP argument
    lunID,       \* its lunID argument
    bypath,      \* /dev/disk/by-path: whether it can be read, and its entries
    tpc,         \* position in the call
    byPathRet    \* the returned map and error

byPathVars == <<targetIP, lunID, bypath, tpc, byPathRet>>

bypathdir ==
    <<"/", "d", "e", "v", "/", "d", "i", "s", "k", "/", "b", "y", "-", "p", "a", "t", "h">>

TargetIPs == { <<"1", ".", "1">>, <<"1", ".", "1", "0">>, <<"2", ".", "2">> }

LunIDs == {0, 5, 15, 26}

\* Names a by-path directory may hold, in the order os.ReadDir lists them.
ByPathNames ==
    << <<"i", "p", "-", "1", ".", "1", "0", ":", "t", "-", "l", "u", "n", "-", "5">>,
       <<"i", "p", "-", "1", ".", "1", ":", "t", "-", "l", "u", "n", "-", "0", "x", "0",
            "0", "0", "5", "0", "0", "0", "0", "0", "0", "0", "0", "0", "0", "0", "0">>,
       <<"i", "p", "-", "1", ".", "1", ":", "t", "-", "l", "u", "n", "-", "0", "x", "0",
            "0", "1", "a", "0", "0", "0", "0", "0", "0", "0", "0", "0", "0", "0", "0">>,
       <<"i", "p", "-", "1", ".", "1", ":", "t", "-", "l", "u", "n", "-", "1", "5">>,
       <<"i", "p", "-", "1", ".", "1", ":", "t", "-", "l", "u", "n", "-", "5">>,
       <<"i", "p", "-", "1", ".", "1", ":", "t", "l", "u", "n", "-", "5">> >>

\* The link target of the i-th name.
ByPathTarget(i) == <<".", ".", "/", ".", ".", "/", "s", "d">> \o <<HexDigits[i + 10]>>

\* An entry is absent, a link that can be read, or one that cannot.
EntryStates == {"absent", "link", "unreadable"}

\* The entries os.ReadDir returns for a choice of entry states.
RECURSIVE entriesFrom(_, _)
entriesFrom(states, i) ==
    IF i > Len(ByPathNames) THEN <<>>
    ELSE (IF states[i] = "absent" THEN <<>>
          ELSE << [name |-> ByPathNames[i],
                   link |-> IF states[i] = "link" THEN Link(ByPathTarget(i)) ELSE NoLink] >>)
         \o entriesFrom(states, i + 1)

ByPathDirs ==
    { [err |-> TRUE, entries |-> <<>>] }
        \cup { [err |-> FALSE, entries |-> entriesFrom(st, 1)] :
                  st \in [1..Len(ByPathNames) -> EntryStates] }

\* fmt.Sprintf("%x", n) for n >= 0.
RECURSIVE hex(_)
hex(n) == IF n < 16 THEN <<HexDigits[n + 1]>> ELSE hex(n \div 16) \o <<HexDigits[(n % 16) + 1]>>

RECURSIVE zeroPad(_, _)
zeroPad(s, width) == IF Len(s) >= width THEN s ELSE zeroPad(<<"0">> \o s, width)

lunTag == <<"-", "l", "u", "n", "-">>
hexTail == <<"0", "0", "0", "0", "0", "0", "0", "0", "0", "0", "0", "0">>

\* Mutation of matchesLun: only the decimal form is recognised.
matchesLun_decimalOnly(name, l) == HasSuffix(name, lunTag \o Itoa(l))

\* Lines 283-284.
matchesLun(name, l) ==
    \/ HasSuffix(name, lunTag \o Itoa(l))
    \/ HasSuffix(name, lunTag \o <<"0", "x">> \o zeroPad(hex(l), 4) \o hexTail)

\* Lines 280-281.
matchesIP(name, ip) == HasPrefix(name, <<"i", "p", "-">> \o ip \o <<":">>)

\* Lines 276-298: the loop over the remaining entries, result so far in acc.
RECURSIVE byPathLoop(_, _, _, _)
byPathLoop(entries, ip, l, acc) ==
    IF entries = <<>> THEN [result |-> acc, err |-> FALSE]
    ELSE LET entry == Head(entries)
             path  == bypathdir \o <<"/">> \o entry.name
         IN  IF ~matchesIP(entry.name, ip) \/ ~matchesLun(entry.name, l)
             THEN byPathLoop(Tail(entries), ip, l, acc)
             ELSE IF ~entry.link.ok
             THEN [result |-> acc, err |-> TRUE]
             ELSE byPathLoop(Tail(entries), ip, l,
                     [p \in DOMAIN acc \cup {path} |->
                         IF p = path
                         THEN dev \o Split(entry.link.target, "/")[Len(Split(entry.link.target, "/"))]
                         ELSE acc[p]])

\* Lines 266-301.
targetIPLUNToDevicePath(ip, l, dir) ==
    IF dir.err THEN [result |-> <<>>, err |-> TRUE]
    ELSE byPathLoop(dir.entries, ip, l, <<>>)

NoByPathRet == [result |-> <<>>, err |-> FALSE]

InitByPath ==
    /\ targetIP \in TargetIPs
    /\ lunID \in LunIDs
    /\ bypath \in ByPathDirs
    /\ tpc = "call"
    /\ byPathRet = NoByPathRet

IdleByPath ==
    /\ targetIP = <<>>
    /\ lunID = 0
    /\ bypath = [err |-> FALSE, entries |-> <<>>]
    /\ tpc = "idle"
    /\ byPathRet = NoByPathRet

TargetIPLUNToDevicePath ==
    /\ tpc = "call"
    /\ byPathRet' = targetIPLUNToDevicePath(targetIP, lunID, bypath)
    /\ tpc' = "done"
    /\ UNCHANGED <<targetIP, lunID, bypath>>

\* The decimal and the four-digit hexadecimal rendering of each lun id.
LunDecimal == [l \in LunIDs |->
    CASE l = 0 -> <<"0">> [] l = 5 -> <<"5">> [] l = 15 -> <<"1", "5">> [] l = 26 -> <<"2", "6">>]

LunHex4 == [l \in LunIDs |->
    CASE l = 0 -> <<"0", "0", "0", "0">> [] l = 5 -> <<"0", "0", "0", "5">>
      [] l = 15 -> <<"0", "0", "0", "f">> [] l = 26 -> <<"0", "0", "1", "a">>]

\* The entry's name starts with "ip-<targetIP>:" and ends with one of the two lun forms.
Matching(entry) ==
    /\ HasPrefix(entry.name, <<"i", "p", "-">> \o targetIP \o <<":">>)
    /\ \/ HasSuffix(entry.name, <<"-", "l", "u", "n", "-">> \o LunDecimal[lunID])
       \/ HasSuffix(entry.name, <<"-", "l", "u", "n", "-", "0", "x">> \o LunHex4[lunID]
                                   \o <<"0", "0", "0", "0", "0", "0", "0", "0", "0", "0", "0", "0">>)

MatchingEntries == { i \in 1..Len(bypath.entries) : Matching(bypath.entries[i]) }

AllMatchingReadable ==
    /\ ~bypath.err
    /\ \A i \in MatchingEntries : bypath.entries[i].link.ok

EntryPath(i) ==
    <<"/", "d", "e", "v", "/", "d", "i", "s", "k", "/", "b", "y", "-", "p", "a", "t", "h", "/">>
        \o bypath.entries[i].name

\* C18: when the by-path directory and every matching symlink can be read, the
\* returned map has exactly the matching entries' paths as keys, each mapped to
\* "/dev/" plus the final component of its link target, and the error is nil;
\* in particular the map is empty with a nil error when nothing matches.
C18_MapHoldsExactlyMatchingEntries ==
    (tpc = "done" /\ AllMatchingReadable) =>
        /\ ~byPathRet.err
        /\ DOMAIN byPathRet.result = { EntryPath(i) : i \in MatchingEntries }
        /\ \A i \in MatchingEntries :
              byPathRet.result[EntryPath(i)] =
                  <<"/", "d", "e", "v", "/">> \o FinalComponent(bypath.entries[i].link.target)

\* A call that returned both a decimal-form and a hex-form entry while a
\* different target's entry and a malformed name were present.
C18_Witness ==
    /\ tpc = "done"
    /\ AllMatchingReadable
    /\ Cardinality(MatchingEntries) = 2
    /\ Len(bypath.entries) = 4
    /\ \E i, j \in MatchingEntries :
          /\ HasSuffix(bypath.entries[i].name, <<"-", "5">>)
          /\ HasSuffix(bypath.entries[j].name, <<"0", "0", "0">>)
    /\ Cardinality(DOMAIN byPathRet.result) = 2

\* C30: when targetIPLUNToDevicePath returns an error, the map it returns
\* with it is empty.
C30_ErrorReturnsEmptyMap ==
    (tpc = "done" /\ byPathRet.err) => DOMAIN byPathRet.result = {}

(***************************************************************************)
(* validateMountOptions and validateMultipathArgs called on their own.     *)
(***************************************************************************)
VARIABLES
    validator,   \* which validator is called
    vArgs,       \* its variadic arguments
    vpc,         \* position in the call
    vRet         \* the returned error

validateVars == <<validator, vArgs, vpc, vRet>>

MaxArgs == 2
MaxArgLen == 2

\* Options as TestValidateMountOptions passes them, and every short string
\* over a word character, "=", a blank and a character outside \w.
OptionStrings ==
    SeqsUpTo({"r", "=", " ", "*"}, MaxArgLen)
        \cup { rw, <<"n", "o", "a", "t", "i", "m", "e">>, <<"#", "#">>, <<"(", ")">>,
               <<"a", "=", "b">>, <<" ", " ", " ">> }

\* Arguments as TestValidateMultipathArgs passes them, and every short
\* string over the characters the pattern and filepath.Clean tell apart.
ArgStrings ==
    SeqsUpTo({"/", ".", "-", "f", "z", "["}, MaxArgLen)
        \cup { <<"/", "d", "a", "t", "a", "0">>, <<"-", "i", "R">>, <<"-", "/", "a", "b", "c">>,
               <<"-", "h", "1">>, <<"/", "d", "e", "v", "*">>, <<"/", ".", ".">>,
               <<"/", ".", "/">>, <<"/", ".", ".", "/", ".">>, <<"/", ".", ".", "/", "-", "f">>,
               <<"/", "f", "/", ".", ".">>, <<"f", "/", ".", ".">> }

InitValidate ==
    /\ \/ validator = "validateMountOptions" /\ vArgs \in SeqsUpTo(OptionStrings, MaxArgs)
       \/ validator = "validateMultipathArgs" /\ vArgs \in SeqsUpTo(ArgStrings, MaxArgs)
    /\ vpc = "call"
    /\ vRet = mNil

IdleValidate ==
    /\ validator = "none"
    /\ vArgs = <<>>
    /\ vpc = "idle"
    /\ vRet = mNil

ValidateMountOptions ==
    /\ vpc = "call"
    /\ validator = "validateMountOptions"
    /\ vRet' = validateMountOptions(vArgs)
    /\ vpc' = "done"
    /\ UNCHANGED <<validator, vArgs>>

ValidateMultipathArgs ==
    /\ vpc = "call"
    /\ validator = "validateMultipathArgs"
    /\ vRet' = validateMultipathArgs(vArgs)
    /\ vpc' = "done"
    /\ UNCHANGED <<validator, vArgs>>

IsBlankString(s) == \A i \in 1..Len(s) : s[i] = " "

\* A token, or a key=value pair: a run of word characters, which "=" and
\* further word characters may follow, somewhere in the option.
IsTokenOrKeyValue(s) ==
    \E i \in 1..Len(s) : \E j \in i..Len(s) : \A k \in i..j : s[k] \in WordChars

\* C19: validateMountOptions returns nil exactly when every option is blank
\* (empty or only spaces) or holds a token or key=value pair.
C19_BlankAndTokenOptionsAccepted ==
    (vpc = "done" /\ validator = "validateMountOptions") =>
        (vRet = mNil <=> \A i \in 1..Len(vArgs) :
                             IsBlankString(vArgs[i]) \/ IsTokenOrKeyValue(vArgs[i]))

\* "-" followed by letters and digits.
IsShortFlag(s) ==
    /\ Len(s) >= 2
    /\ s[1] = "-"
    /\ \A i \in 2..Len(s) : s[i] \in Digits \cup LowerLetters \cup UpperLetters

\* How deep below the root the components lead: "" and "." stay, ".." goes
\* up one level but not above the root, any other component goes down one.
RECURSIVE DepthBelowRoot(_, _)
DepthBelowRoot(elems, d) ==
    IF elems = <<>> THEN d
    ELSE DepthBelowRoot(Tail(elems),
             IF Head(elems) \in {<<>>, <<".">>} THEN d
             ELSE IF Head(elems) = <<".", ".">> THEN (IF d > 0 THEN d - 1 ELSE 0)
             ELSE d + 1)

\* The argument names the root: it starts with "/" and its components lead
\* back to the root.
CleansToRoot(s) ==
    /\ s # <<>>
    /\ s[1] = "/"
    /\ DepthBelowRoot(Split(s, "/"), 0) = 0

VARIABLES
    aSource,     \* validateMountArgs' source argument
    aTarget,     \* its target argument
    aFsType,     \* its fsType argument
    aOpts,       \* its opts
    apc,         \* position in the call
    aRet         \* the returned error

mountArgsVars == <<aSource, aTarget, aFsType, aOpts, apc, aRet>>

\* Paths as TestValidateMountArgs passes them, and paths that clean to "/"
\* or to "." without being written so.
ArgPaths ==
    { <<"/">>, <<>>, <<"s", "o", "u", "r", "c", "e">>, <<"/", "/">>, <<"/", "a", "/", ".", ".">>,
      <<"a", "/", ".", ".">>, <<"/", "a">> }

ArgFsTypes ==
    { <<>>, ext3, ext4, xfs, nfs, <<"E", "X", "T", "4">>, <<"e", "x", "t">>,
      <<"e", "x", "t", "4", "4">>, <<"f", "s", "t", "y", "p", "e">>, <<" ">> }

ArgOptions == { <<"a">>, <<"b">>, <<>>, <<"*">> }

InitMountArgs ==
    /\ aSource \in ArgPaths
    /\ aTarget \in ArgPaths
    /\ aFsType \in ArgFsTypes
    /\ aOpts \in SeqsUpTo(ArgOptions, MaxArgs)
    /\ apc = "call"
    /\ aRet = mNil

IdleMountArgs ==
    /\ aSource = <<>>
    /\ aTarget = <<>>
    /\ aFsType = <<>>
    /\ aOpts = <<>>
    /\ apc = "idle"
    /\ aRet = mNil

ValidateMountArgs ==
    /\ apc = "call"
    /\ aRet' = validateMountArgs(aSource, aTarget, aFsType, aOpts)
    /\ apc' = "done"
    /\ UNCHANGED <<aSource, aTarget, aFsType, aOpts>>

\* The file system types the claim lists, written out.
ListedFsTypes ==
    { <<"e", "x", "t", "3">>, <<"e", "x", "t", "4">>, <<"x", "f", "s">>, <<"n", "f", "s">> }

\* C21: validateMountArgs returns nil exactly when neither the cleaned source
\* nor the cleaned target is "/", fsType is empty or one of ext3, ext4, xfs,
\* nfs in that exact case, and validateMountOptions accepts the options.
C21_AcceptsIffPathsTypeAndOptionsValid ==
    apc = "done" =>
        (aRet = mNil <=>
            /\ ~CleansToRoot(aSource)
            /\ ~CleansToRoot(aTarget)
            /\ aFsType = <<>> \/ aFsType \in ListedFsTypes
            /\ validateMountOptions(aOpts) = mNil)

\* A call with valid paths and options that was refused for the fsType "EXT4".
C21_Witness ==
    /\ apc = "done"
    /\ ~CleansToRoot(aSource)
    /\ ~CleansToRoot(aTarget)
    /\ aFsType = <<"E", "X", "T", "4">>
    /\ Len(aOpts) = 2
    /\ validateMountOptions(aOpts) = mNil
    /\ aRet = mErr("invalid", <<aFsType>>, "FsType")

(***************************************************************************)
(* multipathCommand and its deadline: the context made by                  *)
(* context.WithTimeout, the process started by exec.CommandContext and     *)
(* the wait in cmd.CombinedOutput.                                         *)
(***************************************************************************)
VARIABLES
    timeoutSeconds,  \* multipathCommand's timeoutSeconds argument
    cmdChroot,       \* its chroot argument
    cmdArgs,         \* its arguments
    elapsed,         \* seconds since the context was made
    ctxDone,         \* the context's deadline has passed
    proc,            \* the spawned process
    kpc,             \* position in the call
    cmdRet           \* the returned error

cmdVars == <<timeoutSeconds, cmdChroot, cmdArgs, elapsed, ctxDone, proc, kpc, cmdRet>>

MaxTimeout == 2

deadlineExceeded == "context deadline exceeded"

\* Line 581: a deadline that is not in the future gives a context that is done.
withTimeout(seconds) == seconds <= 0

\* exec.CommandContext kills the process once the context is done.
\* Mutation: the context is not attached to the command.
killsProcess_never(done, p) == FALSE

killsProcess(done, p) == done /\ p = "running"

\* The error cmd.CombinedOutput returns for an ended process.
waitError(p) ==
    CASE p = "exited 0" -> "nil"
      [] p = "exited 1" -> "exit status 1"
      [] p = "killed"   -> "signal: killed"

InitCmd ==
    /\ timeoutSeconds \in 0..MaxTimeout
    /\ cmdChroot \in Chroots
    /\ cmdArgs \in SeqsUpTo(MultipathArgs, 1)
    /\ elapsed = 0
    /\ ctxDone = withTimeout(timeoutSeconds)
    /\ proc = "none"
    /\ kpc = "call"
    /\ cmdRet = "none"

IdleCmd ==
    /\ timeoutSeconds = 0
    /\ cmdChroot = <<>>
    /\ cmdArgs = <<>>
    /\ elapsed = 0
    /\ ctxDone = FALSE
    /\ proc = "none"
    /\ kpc = "idle"
    /\ cmdRet = "none"

\* Lines 586-602 and the start of the process in CombinedOutput: the
\* arguments are refused, the context is already done, the binary cannot be
\* started, or the process runs.
CmdStart ==
    /\ kpc = "call"
    /\ IF validateMultipathArgs(cmdArgs) # mNil
       THEN kpc' = "done" /\ cmdRet' = "invalid" /\ proc' = proc
       ELSE IF ctxDone
       THEN kpc' = "done" /\ cmdRet' = deadlineExceeded /\ proc' = proc
       ELSE \/ kpc' = "done" /\ cmdRet' = "fork/exec" /\ proc' = proc
            \/ kpc' = "wait" /\ cmdRet' = cmdRet /\ proc' = "running"
    /\ UNCHANGED <<timeoutSeconds, cmdChroot, cmdArgs, elapsed, ctxDone>>

\* A second passes while the call waits for the process.
CmdTick ==
    /\ kpc = "wait"
    /\ elapsed < timeoutSeconds
    /\ elapsed' = elapsed + 1
    /\ ctxDone' = (elapsed + 1 >= timeoutSeconds)
    /\ UNCHANGED <<timeoutSeconds, cmdChroot, cmdArgs, proc, kpc, cmdRet>>

\* The multipath process ends by itself; nothing makes it do so.
CmdExits ==
    /\ proc = "running"
    /\ proc' \in {"exited 0", "exited 1"}
    /\ UNCHANGED <<timeoutSeconds, cmdChroot, cmdArgs, elapsed, ctxDone, kpc, cmdRet>>

CmdKill ==
    /\ killsProcess(ctxDone, proc)
    /\ proc' = "killed"
    /\ UNCHANGED <<timeoutSeconds, cmdChroot, cmdArgs, elapsed, ctxDone, kpc, cmdRet>>

\* Line 603: CombinedOutput returns once the process has ended.
CmdWait ==
    /\ kpc = "wait"
    /\ proc \in {"exited 0", "exited 1", "killed"}
    /\ cmdRet' = waitError(proc)
    /\ kpc' = "done"
    /\ UNCHANGED <<timeoutSeconds, cmdChroot, cmdArgs, elapsed, ctxDone, proc>>

\* C22: every multipathCommand call returns, and a call whose process was
\* still running when the timeout elapsed has that process killed and
\* returns an error.
C22_ReturnsWithErrorAfterTimeout ==
    /\ (kpc \in {"call", "wait"}) ~> (kpc = "done")
    /\ [](kpc = "done" /\ proc = "killed" => ctxDone /\ cmdRet \notin {"nil", "none"})

\* A call that returned after its process outlived the timeout and was killed.
C22_Witness ==
    /\ kpc = "done"
    /\ timeoutSeconds = MaxTimeout
    /\ elapsed = timeoutSeconds
    /\ proc = "killed"
    /\ cmdRet = "signal: killed"

(***************************************************************************)
(* getMountInfoFromDevice and getNativeDevicesFromPpath.  A line of        *)
(* `lsblk -P` is kept as its NAME, TYPE and MOUNTPOINT values.             *)
(***************************************************************************)
VARIABLES
    devID,          \* getMountInfoFromDevice's devID argument
    lsblkVersion,   \* what isLsblkNew makes of `lsblk -V`
    ppOut,          \* result of the lsblk | awk pipeline looking for emcpower lines
    mpOut,          \* result of the pipeline looking for mpath lines
    devOut,         \* result of the pipeline printing the device's own lines
    ppInq,          \* result of getNativeDevicesFromPpath
    ipc,            \* position in the call
    miRet           \* what the call came to

mountInfoVars == <<devID, lsblkVersion, ppOut, mpOut, devOut, ppInq, ipc, miRet>>

MaxLines == 2

LsblkLines ==
    { [name |-> <<"s", "d", "a">>, type |-> <<"d", "i", "s", "k">>, mountpoint |-> <<>>],
      [name |-> <<"s", "d", "b">>, type |-> <<"d", "i", "s", "k">>, mountpoint |-> <<"/", "m">>],
      [name |-> <<"n", "v", "m", "e", "0", "n", "1">>, type |-> <<"d", "i", "s", "k">>, mountpoint |-> <<"/", "m">>],
      [name |-> <<"m", "p", "a", "t", "h", "a">>, type |-> <<"m", "p", "a", "t", "h">>, mountpoint |-> <<"/", "m">>],
      [name |-> <<"e", "m", "c", "p", "o", "w", "e", "r", "a">>, type |-> <<"d", "i", "s", "k">>, mountpoint |-> <<"/", "m">>],
      [name |-> <<"3", "6", "0", "0", "6", "0", "1">>, type |-> <<"m", "p", "a", "t", "h">>, mountpoint |-> <<"/", "m">>],
      [name |-> <<"v", "d", "a">>, type |-> <<"d", "i", "s", "k">>, mountpoint |-> <<"/", "m">>] }

failed == [err |-> TRUE, lines |-> <<>>]
printed(lines) == [err |-> FALSE, lines |-> lines]

\* The root, written in two ways, and an id found in the mount points.
DevIDs == { <<"/">>, <<"m">>, <<"/", "/">> }

LsblkVersions == {"error", "unparsable", "old", "new"}

PpOutputs ==
    { failed, printed(<<>>),
      printed(<< [name |-> <<"e", "m", "c", "p", "o", "w", "e", "r", "a">>, type |-> <<"d", "i", "s", "k">>, mountpoint |-> <<"/", "m">>] >>),
      printed(<< [name |-> <<"s", "d", "b">>, type |-> <<"d", "i", "s", "k">>, mountpoint |-> <<"/", "m">>],
                 [name |-> <<"e", "m", "c", "p", "o", "w", "e", "r", "a">>, type |-> <<"d", "i", "s", "k">>, mountpoint |-> <<"/", "m">>] >>) }

MpOutputs ==
    { failed, printed(<<>>), printed(<< [name |-> <<"m", "p", "a", "t", "h", "a">>, type |-> <<"m", "p", "a", "t", "h">>, mountpoint |-> <<"/", "m">>] >>) }

DevOutputs == { failed } \cup { printed(l) : l \in SeqsUpTo(LsblkLines, MaxLines) }

\* getNativeDevicesFromPpath: pp_inq or the /sys/block scan fails, or the
\* scan returns the devices carrying the WWN, which may be none.
PpInqResults ==
    { [err |-> TRUE, devices |-> <<>>], [err |-> FALSE, devices |-> <<>>],
      [err |-> FALSE, devices |-> << <<"s", "d", "c">>, <<"s", "d", "d">> >>] }

\* The NAME values that `NAME=\"<prefix>\S+\"` finds, in order.
namesWith(lines, prefix) ==
    SelectSeq([i \in 1..Len(lines) |-> lines[i].name],
              LAMBDA n : HasPrefix(n, prefix) /\ Len(n) > Len(prefix))

firstOr(s, default) == IF s = <<>> THEN default ELSE s[1]

sdPrefix == <<"s", "d">>
nvmePrefix == <<"n", "v", "m", "e">>
mpathPrefix == <<"m", "p", "a", "t", "h">>
emcpowerPrefix == <<"e", "m", "c", "p", "o", "w", "e", "r">>

\* Lines 485-495: the NAME of the first line with TYPE="mpath".
mapperName(lines) ==
    firstOr(SelectSeq(lines, LAMBDA l : l.type = mpathPrefix /\ l.name # <<>>),
            [name |-> <<>>]).name

NoMountInfo == [MountPoint |-> <<>>, DeviceNames |-> <<>>, MPathName |-> <<>>, PPathName |-> <<>>]

miResult(kind, info) == [kind |-> kind, info |-> info]

\* Lines 463, 464 and 469-474.
deviceNamesOf(lines) == namesWith(lines, sdPrefix) \o namesWith(lines, nvmePrefix)

\* Lines 455-499, on the lines the pipelines printed.
parseMountInfo(lines, inq) ==
    LET mounts == SelectSeq(lines, LAMBDA l : l.mountpoint # <<>>)
        ppath  == firstOr(namesWith(lines, emcpowerPrefix), <<>>)
        mpath  == firstOr(namesWith(lines, mpathPrefix), <<>>)
        base   == [NoMountInfo EXCEPT !.DeviceNames = deviceNamesOf(lines)]
    IN  IF mounts = <<>> THEN miResult("panic", NoMountInfo)
        ELSE LET info == [base EXCEPT !.MountPoint = mounts[1].mountpoint]
             IN  IF ppath # <<>>
                 THEN IF inq.err THEN miResult("error", NoMountInfo)
                      ELSE miResult("ok", [info EXCEPT !.PPathName = ppath,
                                                       !.DeviceNames = inq.devices])
                 ELSE IF mpath # <<>>
                 THEN miResult("ok", [info EXCEPT !.MPathName = mpath])
                 ELSE miResult("ok", [info EXCEPT !.MPathName = mapperName(lines)])

\* Lines 394-500.
getMountInfoFromDevice(id, version, pp, mp, dv, inq) ==
    IF validatePath(Clean(id)) # mNil THEN miResult("error", NoMountInfo)
    ELSE IF version = "error" THEN miResult("error", NoMountInfo)
    ELSE IF version = "unparsable" THEN miResult("panic", NoMountInfo)
    ELSE IF pp.err THEN miResult("error", NoMountInfo)
    ELSE IF pp.lines # <<>> THEN parseMountInfo(pp.lines, inq)
    ELSE IF mp.err \/ dv.err THEN miResult("error", NoMountInfo)
    ELSE IF dv.lines = <<>> THEN miResult("error", NoMountInfo)
    ELSE parseMountInfo(dv.lines, inq)

InitMountInfo ==
    /\ devID \in DevIDs
    /\ lsblkVersion \in LsblkVersions
    /\ ppOut \in PpOutputs
    /\ mpOut \in MpOutputs
    /\ devOut \in DevOutputs
    /\ ppInq \in PpInqResults
    /\ ipc = "call"
    /\ miRet = miResult("none", NoMountInfo)

IdleMountInfo ==
    /\ devID = <<>>
    /\ lsblkVersion = "old"
    /\ ppOut = failed
    /\ mpOut = failed
    /\ devOut = failed
    /\ ppInq = [err |-> TRUE, devices |-> <<>>]
    /\ ipc = "idle"
    /\ miRet = miResult("none", NoMountInfo)

GetMountInfoFromDevice ==
    /\ ipc = "call"
    /\ miRet' = getMountInfoFromDevice(devID, lsblkVersion, ppOut, mpOut, devOut, ppInq)
    /\ ipc' = "done"
    /\ UNCHANGED <<devID, lsblkVersion, ppOut, mpOut, devOut, ppInq>>

\* C23: a DeviceMountInfo returned with a nil error has a non-empty
\* DeviceNames and at most one of MPathName and PPathName set.
C23_DeviceNamesNonEmptyAndOneLayer ==
    (ipc = "done" /\ miRet.kind = "ok") =>
        /\ miRet.info.DeviceNames # <<>>
        /\ miRet.info.MPathName = <<>> \/ miRet.info.PPathName = <<>>

(***************************************************************************)
(* rescanSCSIHost: Fibre Channel hosts.                                    *)
(***************************************************************************)
\* The hosts that own the remote ports of /sys/class/fc_remote_ports:
\* "rport-H:B-R" belongs to "hostH".
FCHosts ==
    { <<"h", "o", "s", "t">> \o SubSeq(Split(fcRemotePortsDir.entries[i].name, ":")[1], 7,
                                      Len(Split(fcRemotePortsDir.entries[i].name, ":")[1])) :
        i \in { k \in 1..Len(fcRemotePortsDir.entries) :
                   /\ HasPrefix(fcRemotePortsDir.entries[k].name, <<"r", "p", "o", "r", "t", "-">>)
                   /\ Contains(fcRemotePortsDir.entries[k].name, <<":">>) } }

EntriesOfHost(h) == { i \in 1..Len(targetDevices) : targetDevices[i].host = h }

ScansOfHost(h) == { i \in 1..Len(scanLog) : scanLog[i].host = h }

\* C24: once the targets are resolved, the targetdev list holds each FC host
\* at most once, with channel "-" and target "-", and the call opens no FC
\* host's scan file more than once.
C24_FCHostsListedAndScannedOnce ==
    rpc # "call" =>
        \A h \in FCHosts :
            /\ Cardinality(EntriesOfHost(h)) <= 1
            /\ \A i \in EntriesOfHost(h) :
                  targetDevices[i].channel = <<"-">> /\ targetDevices[i].target = <<"-">>
            /\ Cardinality(ScansOfHost(h)) <= 1

\* A finished call given two targets that are both ports behind one FC host,
\* or one such target twice: the host is listed once and was scanned once.
C24_Witness ==
    /\ rpc = "done"
    /\ Len(targets) = 2
    /\ \E h \in FCHosts :
          /\ Cardinality({ i \in 1..Len(fcRemotePortsDir.entries) :
                              /\ HasPrefix(fcRemotePortsDir.entries[i].name,
                                           <<"r", "p", "o", "r", "t", "-">> \o SubSeq(h, 5, Len(h)) \o <<":">>)
                              /\ \E t \in 1..Len(targets) :
                                    targets[t] = TrimSpace(fcRemotePortsDir.entries[i].port_name.content) }) >= 2
          /\ Cardinality(EntriesOfHost(h)) = 1
          /\ Cardinality(ScansOfHost(h)) = 1

(***************************************************************************)
(* resizeFS, reReadPartitionTable, expandExtFs and expandXfs.              *)
(***************************************************************************)
VARIABLES
    rMountpoint,   \* resizeFS's mountpoint argument
    rDevicePath,   \* its devicePath argument
    ppathDevice,   \* its ppathDevice argument
    mpathDevice,   \* its mpathDevice argument
    rFsType,       \* its fsType argument
    zpc,           \* position in the call
    rEffects,      \* the external commands run, in order
    resizeRet      \* the returned error ("nil" when none)

resizeVars ==
    <<rMountpoint, rDevicePath, ppathDevice, mpathDevice, rFsType, zpc, rEffects, resizeRet>>

blockdevCmd == <<"b", "l", "o", "c", "k", "d", "e", "v">>
rereadpt == <<"-", "-", "r", "e", "r", "e", "a", "d", "p", "t">>
resize2fs == <<"r", "e", "s", "i", "z", "e", "2", "f", "s">>
xfsGrowfs == <<"x", "f", "s", "_", "g", "r", "o", "w", "f", "s">>
devSlash == <<"/", "d", "e", "v", "/">>
devMapper == <<"/", "d", "e", "v", "/", "m", "a", "p", "p", "e", "r", "/">>
btrfs == <<"b", "t", "r", "f", "s">>

ResizeMountpoints == { <<"/", "m", "n", "t">>, <<"/">> }
ResizeDevicePaths == { <<"/", "d", "e", "v", "/", "s", "d", "a">>, <<"/">> }
PpathDevices == { <<>>, <<"e", "m", "c", "p", "o", "w", "e", "r", "a">>, <<".", ".">> }
MpathDevices == { <<>>, <<"m", "p", "a", "t", "h", "a">> }
ResizeFsTypes == { ext3, ext4, xfs, btrfs, <<>>, <<"E", "X", "T", "4">> }

ResizeExits == {"nil", "exit status 1"}

ran(cmd, args, exit) == [cmd |-> cmd, args |-> args, exit |-> exit]

\* What a step did and returned.
did(fx, err) == [effects |-> fx, err |-> err]

\* Lines 575-587.
reReadPartitionTable(devicePath, exit) ==
    IF validatePath(Clean(devicePath)) # mNil THEN did(<<>>, "Failed to validate path")
    ELSE did(<<ran(blockdevCmd, <<rereadpt, Clean(devicePath)>>, exit)>>, exit)

\* Lines 589-602.
expandExtFs(devicePath, exit) ==
    IF validatePath(Clean(devicePath)) # mNil THEN did(<<>>, "Failed to validate path")
    ELSE did(<<ran(resize2fs, <<Clean(devicePath)>>, exit)>>,
             IF exit = "nil" THEN "nil" ELSE "Ext fs: Failed to resize device")

\* Lines 604-618.
expandXfs(volumePath, exit) ==
    IF validatePath(Clean(volumePath)) # mNil THEN did(<<>>, "Failed to validate path")
    ELSE did(<<ran(xfsGrowfs, <<<<"-", "d">>, Clean(volumePath)>>, exit)>>,
             IF exit = "nil" THEN "nil" ELSE "Xfs: Failed to resize device")

\* Mutation of rereadStops: the error of the re-read is dropped.
rereadStops_never(err) == FALSE

\* Lines 551-553.
rereadStops(err) == err # "nil"

\* Lines 544-572.
resizeFS(mountpoint, devicePath, ppath, mpath, t, rereadExit, resizeExit) ==
    LET reread  == IF ppath # <<>> THEN reReadPartitionTable(devSlash \o ppath, rereadExit)
                   ELSE did(<<>>, "nil")
        dev1    == IF ppath # <<>> THEN devSlash \o ppath ELSE devicePath
        dev2    == IF mpath # <<>> THEN devMapper \o mpath ELSE dev1
        mnt     == IF mpath # <<>> THEN devMapper \o mpath ELSE mountpoint
        expand  == IF t = ext4 \/ t = ext3 THEN expandExtFs(dev2, resizeExit)
                   ELSE IF t = xfs THEN expandXfs(mnt, resizeExit)
                   ELSE did(<<>>, "Filesystem not supported to resize")
    IN  IF rereadStops(reread.err) THEN reread
        ELSE did(reread.effects \o expand.effects, expand.err)

InitResize ==
    /\ rMountpoint \in ResizeMountpoints
    /\ rDevicePath \in ResizeDevicePaths
    /\ ppathDevice \in PpathDevices
    /\ mpathDevice \in MpathDevices
    /\ rFsType \in ResizeFsTypes
    /\ zpc = "call"
    /\ rEffects = <<>>
    /\ resizeRet = "nil"

IdleResize ==
    /\ rMountpoint = <<>>
    /\ rDevicePath = <<>>
    /\ ppathDevice = <<>>
    /\ mpathDevice = <<>>
    /\ rFsType = <<>>
    /\ zpc = "idle"
    /\ rEffects = <<>>
    /\ resizeRet = "nil"

ResizeFS ==
    /\ zpc = "call"
    /\ \E rereadExit \in ResizeExits, resizeExit \in ResizeExits :
          LET r == resizeFS(rMountpoint, rDevicePath, ppathDevice, mpathDevice, rFsType,
                            rereadExit, resizeExit)
          IN  /\ rEffects' = r.effects
              /\ resizeRet' = r.err
    /\ zpc' = "done"
    /\ UNCHANGED <<rMountpoint, rDevicePath, ppathDevice, mpathDevice, rFsType>>

IsResizeCmd(e) ==
    e.cmd \in { <<"r", "e", "s", "i", "z", "e", "2", "f", "s">>,
                <<"x", "f", "s", "_", "g", "r", "o", "w", "f", "s">> }

IsReReadOfAlias(e) ==
    /\ e.cmd = <<"b", "l", "o", "c", "k", "d", "e", "v">>
    /\ e.args = << <<"-", "-", "r", "e", "r", "e", "a", "d", "p", "t">>,
                   <<"/", "d", "e", "v", "/">> \o ppathDevice >>

\* C25: with a PowerPath alias, a resize command runs only after
\* `blockdev --rereadpt /dev/<alias>` has run and succeeded, and a failed
\* re-read is the call's error.
C25_ReReadBeforeResize ==
    (zpc = "done" /\ ppathDevice # <<>>) =>
        /\ \A i \in 1..Len(rEffects) :
              IsResizeCmd(rEffects[i]) =>
                  \E j \in 1..(i - 1) : IsReReadOfAlias(rEffects[j]) /\ rEffects[j].exit = "nil"
        /\ \A j \in 1..Len(rEffects) :
              (IsReReadOfAlias(rEffects[j]) /\ rEffects[j].exit # "nil") =>
                  /\ resizeRet = rEffects[j].exit
                  /\ Len(rEffects) = 1

\* A call with a PowerPath alias that re-read the partition table and then
\* grew the file system.
C25_Witness ==
    /\ zpc = "done"
    /\ ppathDevice # <<>>
    /\ Len(rEffects) = 2
    /\ IsReReadOfAlias(rEffects[1])
    /\ IsResizeCmd(rEffects[2])
    /\ resizeRet = "nil"

Supported(t) == t \in { <<"e", "x", "t", "3">>, <<"e", "x", "t", "4">>, <<"x", "f", "s">> }

\* C29: a call with an fsType other than ext3, ext4 and xfs returns an error
\* and has run no external command.
C29_UnsupportedTypeRunsNothing ==
    (zpc = "done" /\ ~Supported(rFsType)) => (resizeRet # "nil" /\ rEffects = <<>>)

(***************************************************************************)
(* rescanSCSIHost called twice.                                            *)
(***************************************************************************)
Shorter(a, b) == IF Len(a) <= Len(b) THEN Len(a) ELSE Len(b)

\* Every scan file the second call has opened so far behaved as it did at
\* the same place in the first call.
ScanFilesBehaveAlike ==
    \A i \in 1..Shorter(firstCall.log, scanLog) :
        /\ firstCall.log[i].opened = scanLog[i].opened
        /\ firstCall.log[i].written = scanLog[i].written
        /\ firstCall.log[i].closed = scanLog[i].closed

VARIABLES
    GOFSMockMounts,   \* the mock mount table
    GOFSMock,         \* the error-inducing flags
    mountsBefore,     \* the table as the last call found it
    mockCall,         \* the last call: its method and target
    mockRet           \* what the last call returned ("panic" when it did not)

mockVars == <<GOFSMockMounts, GOFSMock, mountsBefore, mockCall, mockRet>>

MaxMounts == 3

devtmpfs == <<"d", "e", "v", "t", "m", "p", "f", "s">>

MockPaths == { <<"/", "a">>, <<"/", "b">> }
MockSources == { <<"/", "d", "e", "v", "/", "s">>, <<"/", "a">> }

Info(device, path, type, src, o) ==
    [Device |-> device, Path |-> path, Type |-> type, Source |-> src, Opts |-> o]

\* getDevice for a path that is not on the machine running the mock: Lstat
\* fails and the path is returned as it is.
getDevice(path) == path

\* Lines 468-474: the Device of the last entry mounted at source, if any.
rootSource(table, src) ==
    LET at == {i \in 1..Len(table) : table[i].Path = src}
    IN  IF at = {} THEN <<>> ELSE table[CHOOSE k \in at : \A j \in at : j <= k].Device

\* Lines 458-478.
mockMount(table, src, tgt, t, o) ==
    Append(table,
           IF \E i \in 1..Len(table) : table[i].Path = src
           THEN Info(devtmpfs, tgt, <<>>, rootSource(table, src), o)
           ELSE Info(getDevice(src), tgt, <<>>, <<>>, o))

\* Lines 348-359.
mockBindMount(table, src, tgt, o) == Append(table, Info(getDevice(src), tgt, <<>>, <<>>, o))

\* Lines 321-333.
mockFormatAndMount(table, src, tgt, t, o) == Append(table, Info(getDevice(src), tgt, t, <<>>, o))

\* copy(s[i:], s[i+1:]) on a slice of length len over the array backing;
\* i counts from 1 here.
copyDown(backing, len, i) ==
    [j \in 1..Len(backing) |-> IF j >= i /\ j < len THEN backing[j + 1] ELSE backing[j]]

\* Lines 484-489: the range loop runs over the array and the length the table
\* had at its start, while the body moves the array's elements and shortens
\* the table; s[i+1:] beyond the shortened length panics.
RECURSIVE unmountLoop(_, _, _, _)
unmountLoop(backing, len, i, tgt) ==
    IF i > Len(backing) THEN [table |-> SubSeq(backing, 1, len), panic |-> FALSE]
    ELSE IF backing[i].Path # tgt THEN unmountLoop(backing, len, i + 1, tgt)
    ELSE IF i > len THEN [table |-> SubSeq(backing, 1, len), panic |-> TRUE]
    ELSE unmountLoop(copyDown(backing, len, i), len - 1, i + 1, tgt)

\* Lines 480-491, without the induced error.
mockUnmount(table, tgt) == unmountLoop(table, Len(table), 1, tgt)

Flags == [InduceMountError : BOOLEAN, InduceBindMountError : BOOLEAN, InduceUnmountError : BOOLEAN]

NoMockCall == [method |-> "none", target |-> <<>>]

InitMock ==
    /\ GOFSMockMounts = <<>>
    /\ GOFSMock \in Flags
    /\ mountsBefore = <<>>
    /\ mockCall = NoMockCall
    /\ mockRet = "nil"

IdleMock ==
    /\ GOFSMockMounts = <<>>
    /\ GOFSMock = [InduceMountError |-> FALSE, InduceBindMountError |-> FALSE,
                   InduceUnmountError |-> FALSE]
    /\ mountsBefore = <<>>
    /\ mockCall = [method |-> "idle", target |-> <<>>]
    /\ mockRet = "nil"

\* A test under way: the last call returned and the table has room.
mockReady == mockCall.method # "idle" /\ mockRet # "panic"

called(method, tgt) ==
    /\ mockCall' = [method |-> method, target |-> tgt]
    /\ mountsBefore' = GOFSMockMounts

MockMount ==
    /\ mockReady
    /\ Len(GOFSMockMounts) < MaxMounts
    /\ \E src \in MockSources, tgt \in MockPaths :
          /\ called("mount", tgt)
          /\ IF GOFSMock.InduceMountError
             THEN mockRet' = "mount induced error" /\ UNCHANGED GOFSMockMounts
             ELSE /\ mockRet' = "nil"
                  /\ GOFSMockMounts' = mockMount(GOFSMockMounts, src, tgt, <<>>, <<rw>>)
    /\ UNCHANGED GOFSMock

MockBindMount ==
    /\ mockReady
    /\ Len(GOFSMockMounts) < MaxMounts
    /\ \E src \in MockSources, tgt \in MockPaths :
          /\ called("bindMount", tgt)
          /\ IF GOFSMock.InduceBindMountError
             THEN mockRet' = "bindMount induced error" /\ UNCHANGED GOFSMockMounts
             ELSE /\ mockRet' = "nil"
                  /\ GOFSMockMounts' = mockBindMount(GOFSMockMounts, src, tgt, <<bind>>)
    /\ UNCHANGED GOFSMock

MockFormatAndMount ==
    /\ mockReady
    /\ Len(GOFSMockMounts) < MaxMounts
    /\ \E src \in MockSources, tgt \in MockPaths :
          /\ called("formatAndMount", tgt)
          /\ IF GOFSMock.InduceBindMountError
             THEN /\ mockRet' = "bindMount induced error"
                  /\ GOFSMock' = [GOFSMock EXCEPT !.InduceMountError = FALSE]
                  /\ UNCHANGED GOFSMockMounts
             ELSE /\ mockRet' = "nil"
                  /\ GOFSMockMounts' = mockFormatAndMount(GOFSMockMounts, src, tgt, ext4, <<>>)
                  /\ UNCHANGED GOFSMock

MockUnmount ==
    /\ mockReady
    /\ \E tgt \in MockPaths :
          /\ called("unmount", tgt)
          /\ IF GOFSMock.InduceUnmountError
             THEN mockRet' = "unmount induced error" /\ UNCHANGED GOFSMockMounts
             ELSE LET r == mockUnmount(GOFSMockMounts, tgt)
                  IN  /\ mockRet' = IF r.panic THEN "panic" ELSE "nil"
                      /\ GOFSMockMounts' = r.table
    /\ UNCHANGED GOFSMock

\* C27: an unmount that returned nil left exactly the entries of the prior
\* table whose Path is not the target, in their order; an unmount that
\* returned the induced error left the table as it was.
C27_UnmountRemovesExactlyTargetEntries ==
    mockCall.method = "unmount" =>
        /\ mockRet = "nil" =>
              GOFSMockMounts = SelectSeq(mountsBefore, LAMBDA e : e.Path # mockCall.target)
        /\ mockRet = "unmount induced error" => GOFSMockMounts = mountsBefore

(***************************************************************************)
(* wwnMatches: does an NVMe namespace's NGUID belong to a volume WWN.      *)
(***************************************************************************)
VARIABLES
    nguid,        \* wwnMatches' nguid argument
    volumeWWN,    \* its wwn argument
    xpc,          \* position in the call
    matchRet      \* the returned bool

matchVars == <<nguid, volumeWWN, xpc, matchRet>>

PowerMaxOUIPrefix == <<"6", "0", "0", "0", "0", "9", "7">>
PowerStoreOUIPrefix == <<"6", "8", "c", "c", "f", "0", "9">>
naaPrefix == <<"n", "a", "a", ".">>

UpperSeq ==
    <<"A", "B", "C", "D", "E", "F", "G", "H", "I", "J", "K", "L", "M",
      "N", "O", "P", "Q", "R", "S", "T", "U", "V", "W", "X", "Y", "Z">>
LowerSeq ==
    <<"a", "b", "c", "d", "e", "f", "g", "h", "i", "j", "k", "l", "m",
      "n", "o", "p", "q", "r", "s", "t", "u", "v", "w", "x", "y", "z">>

\* strings.ToLower
ToLower(s) ==
    [i \in 1..Len(s) |->
        IF \E k \in 1..Len(UpperSeq) : UpperSeq[k] = s[i]
        THEN LowerSeq[CHOOSE k \in 1..Len(UpperSeq) : UpperSeq[k] = s[i]]
        ELSE s[i]]

\* The WWNs of TestGetSysBlockDevicesForVolumeWWN, bare, with "naa." and in
\* upper case, one that is too short and one of another vendor.
VolumeWWNs ==
    { <<"6", "8", "c", "c", "f", "0", "9", "8", "0", "0", "1", "1", "1", "1", "a", "2", "2",
        "2", "2", "b", "3", "d", "4", "4", "4", "4", "a", "1", "b", "2", "3", "c">>,
      <<"n", "a", "a", ".", "6", "8", "c", "c", "f", "0", "9", "8", "0", "0", "1", "1", "1",
        "1", "a", "2", "2", "2", "2", "b", "3", "d", "4", "4", "4", "4", "a", "1", "b", "2",
        "3", "c">>,
      <<"N", "A", "A", ".", "6", "8", "C", "C", "F", "0", "9", "8", "0", "0", "1", "1", "1",
        "1", "A", "2", "2", "2", "2", "B", "3", "D", "4", "4", "4", "4", "A", "1", "B", "2",
        "3", "C">>,
      <<"n", "a", "a", ".", "6", "0", "0", "0", "0", "9", "7", "0", "0", "0", "0", "1", "2",
        "0", "0", "0", "1", "2", "6", "3", "5", "3", "3", "0", "3", "0", "3", "1", "3", "4",
        "3", "4">>,
      <<"6", "8", "c", "c", "f", "0", "9", "8", "0", "0", "1", "1", "1", "1", "a", "2", "2",
        "2", "2", "b", "3", "d">>,
      <<"7", "8", "c", "c", "f", "0", "9", "8", "0", "0", "1", "1", "1", "1", "a", "2", "2",
        "2", "2", "b", "3", "d", "4", "4", "4", "4", "a", "1", "b", "2", "3", "c">> }

\* What the wwid file of an NVMe namespace may hold for the PowerStore
\* volume: the two tokens of the sample, whole or altered at either end,
\* around the vendor part.
NguidHeads ==
    { <<"1", "1", "1", "1", "a", "2", "2", "2", "2", "b", "3", "d", "4", "4", "4", "4">>,
      <<"0", "0", "0", "1", "a", "2", "2", "2", "2", "b", "3", "d", "4", "4", "4", "4">>,
      <<"1", "1", "1", "1", "a", "2", "2", "2", "2", "b", "3", "d", "4", "4", "4", "0">>,
      <<"1", "1", "1", "1", "a", "2", "2", "2", "2", "b", "3", "d", "0", "0", "0", "0">> }
NguidTails == { <<"a", "1", "b", "2", "3", "c">>, <<"a", "1", "b", "2", "3", "f">>, <<"a", "1", "b", "2", "c", "c">>, <<>> }
nguidMiddle == <<"8", "c", "c", "f", "0", "9", "6", "8", "0", "0">>

Nguids ==
    { h \o nguidMiddle \o t : h \in NguidHeads, t \in NguidTails }
        \cup { <<"1", "2", "6", "3", "5", "3", "3", "0", "3", "0", "3", "1", "3", "4", "3",
                 "4", "0", "0", "0", "0", "9", "7", "6", "0", "0", "0", "0", "1", "2", "0",
                 "0", "0">>,
               <<>> }

\* Go's s[from:to], from and to counted from 0.
slice(s, from, to) == SubSeq(s, from + 1, to)

\* Lines 754-755.
powerStoreTokens(w) ==
    [token1 |-> slice(w, 13, Len(w) - 7), token2 |-> slice(w, Len(w) - 6, Len(w) - 1)]

\* Lines 727-770.
wwnMatches(id, w) ==
    IF Len(w) < 32 THEN FALSE
    ELSE LET lower == ToLower(w)
             bare  == IF HasPrefix(lower, naaPrefix) THEN slice(lower, 4, Len(lower)) ELSE lower
         IN  IF HasPrefix(bare, PowerStoreOUIPrefix)
             THEN /\ Contains(id, powerStoreTokens(bare).token1)
                  /\ Contains(id, powerStoreTokens(bare).token2)
             ELSE IF HasPrefix(bare, PowerMaxOUIPrefix)
             THEN HasPrefix(id, slice(bare, 16, Len(bare)) \o slice(bare, 1, 7))
             ELSE FALSE

InitMatch ==
    /\ nguid \in Nguids
    /\ volumeWWN \in VolumeWWNs
    /\ xpc = "call"
    /\ matchRet = FALSE

IdleMatch ==
    /\ nguid = <<>>
    /\ volumeWWN = <<>>
    /\ xpc = "idle"
    /\ matchRet = FALSE

WwnMatches ==
    /\ xpc = "call"
    /\ matchRet' = wwnMatches(nguid, volumeWWN)
    /\ xpc' = "done"
    /\ UNCHANGED <<nguid, volumeWWN>>

\* The WWN in lower case without a leading "naa.".
BareWWN ==
    IF HasPrefix(ToLower(volumeWWN), <<"n", "a", "a", ".">>)
    THEN SubSeq(ToLower(volumeWWN), 5, Len(volumeWWN))
    ELSE ToLower(volumeWWN)

IsPowerStoreWWN ==
    /\ Len(BareWWN) = 32
    /\ HasPrefix(BareWWN, <<"6", "8", "c", "c", "f", "0", "9">>)

\* C28: for a PowerStore WWN, wwnMatches returns true exactly when the NGUID
\* contains the 16 characters at positions 10 to 25 of the WWN and contains
\* its last 6 characters.
C28_PowerStoreMatchIffBothTokens ==
    (xpc = "done" /\ IsPowerStoreWWN) =>
        (matchRet <=> /\ Contains(nguid, SubSeq(BareWWN, 11, 26))
                      /\ Contains(nguid, SubSeq(BareWWN, 27, 32)))

vars == <<rescanVars, removeVars, lipVars, readVars, mountVars, lunVars, wwnVars, byPathVars, validateVars, mountArgsVars, cmdVars, mountInfoVars, resizeVars, mockVars, matchVars>>

(* One specification per operation; the other operations stay idle. *)
RescanInit ==
    /\ InitRescan
    /\ IdleRemove
    /\ IdleLIP
    /\ IdleRead
    /\ IdleMount
    /\ IdleLun
    /\ IdleWwn
    /\ IdleByPath
    /\ IdleValidate
    /\ IdleMountArgs
    /\ IdleCmd
    /\ IdleMountInfo
    /\ IdleResize
    /\ IdleMock
    /\ IdleMatch

RescanNext ==
    \/ RescanResolve /\ UNCHANGED
           <<removeVars, lipVars, readVars, mountVars, lunVars, wwnVars, byPathVars,
             validateVars, mountArgsVars, cmdVars, mountInfoVars, resizeVars, mockVars,
             matchVars>>
    \/ ScanTargeted /\ UNCHANGED
           <<removeVars, lipVars, readVars, mountVars, lunVars, wwnVars, byPathVars,
             validateVars, mountArgsVars, cmdVars, mountInfoVars, resizeVars, mockVars,
             matchVars>>
    \/ ScanSweep /\ UNCHANGED
           <<removeVars, lipVars, readVars, mountVars, lunVars, wwnVars, byPathVars,
             validateVars, mountArgsVars, cmdVars, mountInfoVars, resizeVars, mockVars,
             matchVars>>

SpecRescan == RescanInit /\ [][RescanNext]_vars

RemoveInit ==
    /\ InitRemove
    /\ IdleRescan
    /\ IdleLIP
    /\ IdleRead
    /\ IdleMount
    /\ IdleLun
    /\ IdleWwn
    /\ IdleByPath
    /\ IdleValidate
    /\ IdleMountArgs
    /\ IdleCmd
    /\ IdleMountInfo
    /\ IdleResize
    /\ IdleMock
    /\ IdleMatch

RemoveNext ==
    removeBlockDevice /\ UNCHANGED
        <<rescanVars, lipVars, readVars, mountVars, lunVars, wwnVars, byPathVars, validateVars,
          mountArgsVars, cmdVars, mountInfoVars, resizeVars, mockVars, matchVars>>

SpecRemove == RemoveInit /\ [][RemoveNext]_vars

LIPInit ==
    /\ InitLIP
    /\ IdleRescan
    /\ IdleRemove
    /\ IdleRead
    /\ IdleMount
    /\ IdleLun
    /\ IdleWwn
    /\ IdleByPath
    /\ IdleValidate
    /\ IdleMountArgs
    /\ IdleCmd
    /\ IdleMountInfo
    /\ IdleResize
    /\ IdleMock
    /\ IdleMatch

LIPNext ==
    \/ LIPReadDir /\ UNCHANGED
           <<rescanVars, removeVars, readVars, mountVars, lunVars, wwnVars, byPathVars,
             validateVars, mountArgsVars, cmdVars, mountInfoVars, resizeVars, mockVars,
             matchVars>>
    \/ LIPHost /\ UNCHANGED
           <<rescanVars, removeVars, readVars, mountVars, lunVars, wwnVars, byPathVars,
             validateVars, mountArgsVars, cmdVars, mountInfoVars, resizeVars, mockVars,
             matchVars>>

SpecLIP == LIPInit /\ [][LIPNext]_vars

ReadInit ==
    /\ InitRead
    /\ IdleRescan
    /\ IdleRemove
    /\ IdleLIP
    /\ IdleMount
    /\ IdleLun
    /\ IdleWwn
    /\ IdleByPath
    /\ IdleValidate
    /\ IdleMountArgs
    /\ IdleCmd
    /\ IdleMountInfo
    /\ IdleResize
    /\ IdleMock
    /\ IdleMatch

ReadNext ==
    \/ MountTableChanges /\ UNCHANGED
           <<rescanVars, removeVars, lipVars, mountVars, lunVars, wwnVars, byPathVars,
             validateVars, mountArgsVars, cmdVars, mountInfoVars, resizeVars, mockVars,
             matchVars>>
    \/ ReadBegins /\ UNCHANGED
           <<rescanVars, removeVars, lipVars, mountVars, lunVars, wwnVars, byPathVars,
             validateVars, mountArgsVars, cmdVars, mountInfoVars, resizeVars, mockVars,
             matchVars>>
    \/ FirstRead /\ UNCHANGED
           <<rescanVars, removeVars, lipVars, mountVars, lunVars, wwnVars, byPathVars,
             validateVars, mountArgsVars, cmdVars, mountInfoVars, resizeVars, mockVars,
             matchVars>>
    \/ ReRead /\ UNCHANGED
           <<rescanVars, removeVars, lipVars, mountVars, lunVars, wwnVars, byPathVars,
             validateVars, mountArgsVars, cmdVars, mountInfoVars, resizeVars, mockVars,
             matchVars>>

SpecRead == ReadInit /\ [][ReadNext]_vars

MountInit ==
    /\ InitMount
    /\ IdleRescan
    /\ IdleRemove
    /\ IdleLIP
    /\ IdleRead
    /\ IdleLun
    /\ IdleWwn
    /\ IdleByPath
    /\ IdleValidate
    /\ IdleMountArgs
    /\ IdleCmd
    /\ IdleMountInfo
    /\ IdleResize
    /\ IdleMock
    /\ IdleMatch

MountNext ==
    \/ MountCall /\ UNCHANGED
           <<rescanVars, removeVars, lipVars, readVars, lunVars, wwnVars, byPathVars,
             validateVars, mountArgsVars, cmdVars, mountInfoVars, resizeVars, mockVars,
             matchVars>>
    \/ BindMountCall /\ UNCHANGED
           <<rescanVars, removeVars, lipVars, readVars, lunVars, wwnVars, byPathVars,
             validateVars, mountArgsVars, cmdVars, mountInfoVars, resizeVars, mockVars,
             matchVars>>
    \/ UnmountCall /\ UNCHANGED
           <<rescanVars, removeVars, lipVars, readVars, lunVars, wwnVars, byPathVars,
             validateVars, mountArgsVars, cmdVars, mountInfoVars, resizeVars, mockVars,
             matchVars>>
    \/ MultipathCall /\ UNCHANGED
           <<rescanVars, removeVars, lipVars, readVars, lunVars, wwnVars, byPathVars,
             validateVars, mountArgsVars, cmdVars, mountInfoVars, resizeVars, mockVars,
             matchVars>>
    \/ FormatAndMountFirst /\ UNCHANGED
           <<rescanVars, removeVars, lipVars, readVars, lunVars, wwnVars, byPathVars,
             validateVars, mountArgsVars, cmdVars, mountInfoVars, resizeVars, mockVars,
             matchVars>>
    \/ FormatAndMountProbe /\ UNCHANGED
           <<rescanVars, removeVars, lipVars, readVars, lunVars, wwnVars, byPathVars,
             validateVars, mountArgsVars, cmdVars, mountInfoVars, resizeVars, mockVars,
             matchVars>>
    \/ FormatAndMountFormat /\ UNCHANGED
           <<rescanVars, removeVars, lipVars, readVars, lunVars, wwnVars, byPathVars,
             validateVars, mountArgsVars, cmdVars, mountInfoVars, resizeVars, mockVars,
             matchVars>>

SpecMount == MountInit /\ [][MountNext]_vars

LunInit ==
    /\ InitLun
    /\ IdleRescan
    /\ IdleRemove
    /\ IdleLIP
    /\ IdleRead
    /\ IdleMount
    /\ IdleWwn
    /\ IdleByPath
    /\ IdleValidate
    /\ IdleMountArgs
    /\ IdleCmd
    /\ IdleMountInfo
    /\ IdleResize
    /\ IdleMock
    /\ IdleMatch

LunNext ==
    NormalizeLun /\ UNCHANGED
        <<rescanVars, removeVars, lipVars, readVars, mountVars, wwnVars, byPathVars,
          validateVars, mountArgsVars, cmdVars, mountInfoVars, resizeVars, mockVars, matchVars>>

SpecLun == LunInit /\ [][LunNext]_vars

WwnInit ==
    /\ InitWwn
    /\ IdleRescan
    /\ IdleRemove
    /\ IdleLIP
    /\ IdleRead
    /\ IdleMount
    /\ IdleLun
    /\ IdleByPath
    /\ IdleValidate
    /\ IdleMountArgs
    /\ IdleCmd
    /\ IdleMountInfo
    /\ IdleResize
    /\ IdleMock
    /\ IdleMatch

WwnNext ==
    WwnToDevicePath /\ UNCHANGED
        <<rescanVars, removeVars, lipVars, readVars, mountVars, lunVars, byPathVars,
          validateVars, mountArgsVars, cmdVars, mountInfoVars, resizeVars, mockVars, matchVars>>

SpecWwn == WwnInit /\ [][WwnNext]_vars

ByPathInit ==
    /\ InitByPath
    /\ IdleRescan
    /\ IdleRemove
    /\ IdleLIP
    /\ IdleRead
    /\ IdleMount
    /\ IdleLun
    /\ IdleWwn
    /\ IdleValidate
    /\ IdleMountArgs
    /\ IdleCmd
    /\ IdleMountInfo
    /\ IdleResize
    /\ IdleMock
    /\ IdleMatch

ByPathNext ==
    TargetIPLUNToDevicePath /\ UNCHANGED
        <<rescanVars, removeVars, lipVars, readVars, mountVars, lunVars, wwnVars, validateVars,
          mountArgsVars, cmdVars, mountInfoVars, resizeVars, mockVars, matchVars>>

SpecByPath == ByPathInit /\ [][ByPathNext]_vars

ValidateInit ==
    /\ InitValidate
    /\ IdleRescan
    /\ IdleRemove
    /\ IdleLIP
    /\ IdleRead
    /\ IdleMount
    /\ IdleLun
    /\ IdleWwn
    /\ IdleByPath
    /\ IdleMountArgs
    /\ IdleCmd
    /\ IdleMountInfo
    /\ IdleResize
    /\ IdleMock
    /\ IdleMatch

ValidateNext ==
    \/ ValidateMountOptions /\ UNCHANGED
           <<rescanVars, removeVars, lipVars, readVars, mountVars, lunVars, wwnVars,
             byPathVars, mountArgsVars, cmdVars, mountInfoVars, resizeVars, mockVars, matchVars>>
    \/ ValidateMultipathArgs /\ UNCHANGED
           <<rescanVars, removeVars, lipVars, readVars, mountVars, lunVars, wwnVars,
             byPathVars, mountArgsVars, cmdVars, mountInfoVars, resizeVars, mockVars, matchVars>>

SpecValidate == ValidateInit /\ [][ValidateNext]_vars

MountArgsInit ==
    /\ InitMountArgs
    /\ IdleRescan
    /\ IdleRemove
    /\ IdleLIP
    /\ IdleRead
    /\ IdleMount
    /\ IdleLun
    /\ IdleWwn
    /\ IdleByPath
    /\ IdleValidate
    /\ IdleCmd
    /\ IdleMountInfo
    /\ IdleResize
    /\ IdleMock
    /\ IdleMatch

MountArgsNext ==
    ValidateMountArgs /\ UNCHANGED
        <<rescanVars, removeVars, lipVars, readVars, mountVars, lunVars, wwnVars, byPathVars,
          validateVars, cmdVars, mountInfoVars, resizeVars, mockVars, matchVars>>

SpecMountArgs == MountArgsInit /\ [][MountArgsNext]_vars

CmdInit ==
    /\ InitCmd
    /\ IdleRescan
    /\ IdleRemove
    /\ IdleLIP
    /\ IdleRead
    /\ IdleMount
    /\ IdleLun
    /\ IdleWwn
    /\ IdleByPath
    /\ IdleValidate
    /\ IdleMountArgs
    /\ IdleMountInfo
    /\ IdleResize
    /\ IdleMock
    /\ IdleMatch

CmdNext ==
    \/ CmdStart /\ UNCHANGED
           <<rescanVars, removeVars, lipVars, readVars, mountVars, lunVars, wwnVars,
             byPathVars, validateVars, mountArgsVars, mountInfoVars, resizeVars, mockVars,
             matchVars>>
    \/ CmdTick /\ UNCHANGED
           <<rescanVars, removeVars, lipVars, readVars, mountVars, lunVars, wwnVars,
             byPathVars, validateVars, mountArgsVars, mountInfoVars, resizeVars, mockVars,
             matchVars>>
    \/ CmdExits /\ UNCHANGED
           <<rescanVars, removeVars, lipVars, readVars, mountVars, lunVars, wwnVars,
             byPathVars, validateVars, mountArgsVars, mountInfoVars, resizeVars, mockVars,
             matchVars>>
    \/ CmdKill /\ UNCHANGED
           <<rescanVars, removeVars, lipVars, readVars, mountVars, lunVars, wwnVars,
             byPathVars, validateVars, mountArgsVars, mountInfoVars, resizeVars, mockVars,
             matchVars>>
    \/ CmdWait /\ UNCHANGED
           <<rescanVars, removeVars, lipVars, readVars, mountVars, lunVars, wwnVars,
             byPathVars, validateVars, mountArgsVars, mountInfoVars, resizeVars, mockVars,
             matchVars>>

SpecCmd == CmdInit /\ [][CmdNext]_vars

(* The scheduler runs the steps of the call itself; the spawned process owes nothing. *)
FairSpecCmd ==
    /\ CmdInit
    /\ [][CmdNext]_vars
    /\ WF_vars(CmdStart /\ UNCHANGED
           <<rescanVars, removeVars, lipVars, readVars, mountVars, lunVars, wwnVars,
             byPathVars, validateVars, mountArgsVars, mountInfoVars, resizeVars, mockVars,
             matchVars>>)
    /\ WF_vars(CmdTick /\ UNCHANGED
           <<rescanVars, removeVars, lipVars, readVars, mountVars, lunVars, wwnVars,
             byPathVars, validateVars, mountArgsVars, mountInfoVars, resizeVars, mockVars,
             matchVars>>)
    /\ WF_vars(CmdKill /\ UNCHANGED
           <<rescanVars, removeVars, lipVars, readVars, mountVars, lunVars, wwnVars,
             byPathVars, validateVars, mountArgsVars, mountInfoVars, resizeVars, mockVars,
             matchVars>>)
    /\ WF_vars(CmdWait /\ UNCHANGED
           <<rescanVars, removeVars, lipVars, readVars, mountVars, lunVars, wwnVars,
             byPathVars, validateVars, mountArgsVars, mountInfoVars, resizeVars, mockVars,
             matchVars>>)

MountInfoInit ==
    /\ InitMountInfo
    /\ IdleRescan
    /\ IdleRemove
    /\ IdleLIP
    /\ IdleRead
    /\ IdleMount
    /\ IdleLun
    /\ IdleWwn
    /\ IdleByPath
    /\ IdleValidate
    /\ IdleMountArgs
    /\ IdleCmd
    /\ IdleResize
    /\ IdleMock
    /\ IdleMatch

MountInfoNext ==
    GetMountInfoFromDevice /\ UNCHANGED
        <<rescanVars, removeVars, lipVars, readVars, mountVars, lunVars, wwnVars, byPathVars,
          validateVars, mountArgsVars, cmdVars, resizeVars, mockVars, matchVars>>

SpecMountInfo == MountInfoInit /\ [][MountInfoNext]_vars

ResizeInit ==
    /\ InitResize
    /\ IdleRescan
    /\ IdleRemove
    /\ IdleLIP
    /\ IdleRead
    /\ IdleMount
    /\ IdleLun
    /\ IdleWwn
    /\ IdleByPath
    /\ IdleValidate
    /\ IdleMountArgs
    /\ IdleCmd
    /\ IdleMountInfo
    /\ IdleMock
    /\ IdleMatch

ResizeNext ==
    ResizeFS /\ UNCHANGED
        <<rescanVars, removeVars, lipVars, readVars, mountVars, lunVars, wwnVars, byPathVars,
          validateVars, mountArgsVars, cmdVars, mountInfoVars, mockVars, matchVars>>

SpecResize == ResizeInit /\ [][ResizeNext]_vars

MockInit ==
    /\ InitMock
    /\ IdleRescan
    /\ IdleRemove
    /\ IdleLIP
    /\ IdleRead
    /\ IdleMount
    /\ IdleLun
    /\ IdleWwn
    /\ IdleByPath
    /\ IdleValidate
    /\ IdleMountArgs
    /\ IdleCmd
    /\ IdleMountInfo
    /\ IdleResize
    /\ IdleMatch

MockNext ==
    \/ MockMount /\ UNCHANGED
           <<rescanVars, removeVars, lipVars, readVars, mountVars, lunVars, wwnVars,
             byPathVars, validateVars, mountArgsVars, cmdVars, mountInfoVars, resizeVars,
             matchVars>>
    \/ MockBindMount /\ UNCHANGED
           <<rescanVars, removeVars, lipVars, readVars, mountVars, lunVars, wwnVars,
             byPathVars, validateVars, mountArgsVars, cmdVars, mountInfoVars, resizeVars,
             matchVars>>
    \/ MockFormatAndMount /\ UNCHANGED
           <<rescanVars, removeVars, lipVars, readVars, mountVars, lunVars, wwnVars,
             byPathVars, validateVars, mountArgsVars, cmdVars, mountInfoVars, resizeVars,
             matchVars>>
    \/ MockUnmount /\ UNCHANGED
           <<rescanVars, removeVars, lipVars, readVars, mountVars, lunVars, wwnVars,
             byPathVars, validateVars, mountArgsVars, cmdVars, mountInfoVars, resizeVars,
             matchVars>>

SpecMock == MockInit /\ [][MockNext]_vars

MatchInit ==
    /\ InitMatch
    /\ IdleRescan
    /\ IdleRemove
    /\ IdleLIP
    /\ IdleRead
    /\ IdleMount
    /\ IdleLun
    /\ IdleWwn
    /\ IdleByPath
    /\ IdleValidate
    /\ IdleMountArgs
    /\ IdleCmd
    /\ IdleMountInfo
    /\ IdleResize
    /\ IdleMock

MatchNext ==
    WwnMatches /\ UNCHANGED
        <<rescanVars, removeVars, lipVars, readVars, mountVars, lunVars, wwnVars, byPathVars,
          validateVars, mountArgsVars, cmdVars, mountInfoVars, resizeVars, mockVars>>

SpecMatch == MatchInit /\ [][MatchNext]_vars

RetryInit ==
    /\ InitRetry
    /\ IdleRemove
    /\ IdleLIP
    /\ IdleRead
    /\ IdleMount
    /\ IdleLun
    /\ IdleWwn
    /\ IdleByPath
    /\ IdleValidate
    /\ IdleMountArgs
    /\ IdleCmd
    /\ IdleMountInfo
    /\ IdleResize
    /\ IdleMock
    /\ IdleMatch

RetryNext ==
    \/ RescanResolve /\ UNCHANGED
           <<removeVars, lipVars, readVars, mountVars, lunVars, wwnVars, byPathVars,
             validateVars, mountArgsVars, cmdVars, mountInfoVars, resizeVars, mockVars,
             matchVars>>
    \/ ScanTargeted /\ UNCHANGED
           <<removeVars, lipVars, readVars, mountVars, lunVars, wwnVars, byPathVars,
             validateVars, mountArgsVars, cmdVars, mountInfoVars, resizeVars, mockVars,
             matchVars>>
    \/ ScanSweep /\ UNCHANGED
           <<removeVars, lipVars, readVars, mountVars, lunVars, wwnVars, byPathVars,
             validateVars, mountArgsVars, cmdVars, mountInfoVars, resizeVars, mockVars,
             matchVars>>
    \/ RescanAgain /\ UNCHANGED
           <<removeVars, lipVars, readVars, mountVars, lunVars, wwnVars, byPathVars,
             validateVars, mountArgsVars, cmdVars, mountInfoVars, resizeVars, mockVars,
             matchVars>>

SpecRetry == RetryInit /\ [][RetryNext]_vars

====
